---- MODULE Spec2Model ----
(***************************************************************************)
(* Bar aggregation (utils/kline_generator.py) and the moving-average      *)
(* signal strategies (strategies/*.py, test.py) of the quantitative       *)
(* trading analysis platform.                                              *)
(*                                                                         *)
(* Times are whole seconds: a tick row carries a day number and a time of  *)
(* day, a bar label is an absolute second count (day * 86400 + time of     *)
(* day).  Prices, moving averages and slopes are exact rationals           *)
(* <<numerator, denominator>>; NaN is <<0, 0>>.                            *)
(***************************************************************************)
EXTENDS Integers, Sequences, FiniteSets, TLC

VARIABLES
    tickFiles,   \* input/price_tick/<stock>: the partition files, each a sequence of tick rows
    files,       \* input/K_line/<stock>/<timeframe>_<unit>.csv: NoFile or the file's content
    lastCall,    \* the most recent get_k_line call: its key, outcome and return value
    completed,   \* keys for which some get_k_line call has returned a path
    fresh,       \* keys whose file was computed from the tick files as they are now
    cfg,         \* the strategy configuration given to the constructor
    params,      \* the params object of the strategy (threshold, ma, beta are mutable)
    data,        \* the close column of the bar series last given to calculate_signals
    signals,     \* the series calculate_signals returned for data
    raised,      \* the exception the last call on the strategy raised, or NoError
    pool,        \* the run of main.py: the parent, its futures and the units of each worker
    engine,      \* the DataLoader and the BacktestEngine of one unit
    inflight     \* the get_k_line calls in progress in concurrent workers

vars == <<tickFiles, files, lastCall, completed, fresh, cfg, params, data, signals, raised,
          pool, engine, inflight>>

aggVars == <<tickFiles, files, lastCall, completed, fresh>>
sigVars == <<cfg, params, data, signals, raised>>
runVars == <<pool, engine, inflight>>

NoFile == [exists |-> FALSE, bars |-> <<>>, complete |-> FALSE]   \* os.path.exists is False
NoKey == [stock |-> "", timeframe |-> 0, unit |-> ""]
NoPath == <<>>                                                    \* the call raised
NaN == <<0, 0>>
NoError == "none"                                                 \* the call returned

(***************************************************************************)
(* Bounds of the model.                                                    *)
(***************************************************************************)
MaxTicks == 2         \* tick rows the environment writes while get_k_line calls go on
MaxInputTicks == 2    \* tick rows of a tick directory given as input to the aggregation

(***************************************************************************)
(* Generic helpers.                                                        *)
(***************************************************************************)
Min(S) == CHOOSE x \in S : \A y \in S : x <= y
Max(S) == CHOOSE x \in S : \A y \in S : x >= y

RECURSIVE SortedSeq(_)
SortedSeq(S) == IF S = {} THEN <<>> ELSE <<Min(S)>> \o SortedSeq(S \ {Min(S)})

RECURSIVE SumOver(_, _)
SumOver(S, f) == IF S = {} THEN 0
                 ELSE LET x == CHOOSE y \in S : TRUE IN f[x] + SumOver(S \ {x}, f)

RECURSIVE Flatten(_)
Flatten(ss) == IF ss = <<>> THEN <<>> ELSE Head(ss) \o Flatten(Tail(ss))

(***************************************************************************)
(* KLineGenerator                                                          *)
(***************************************************************************)
DaySeconds == 86400
SessionOpen == 32400      \* "09:00"
SessionClose == 48600     \* "13:30"

\* Times of day at which the modelled ticks arrive: around both session ends.
TickTimes == {SessionOpen - 1, SessionOpen, SessionClose - 1, SessionClose, SessionClose + 1}
Days == {0, 1}
TickPrices == {1, 2}
TickVolumes == {1, 2}

Rows == [day : Days, tod : TickTimes, price : TickPrices, volume : TickVolumes]

\* The rows written between calls: one day, around the session close.
LateRows == {r \in Rows : r.day = 0 /\ r.volume = 1 /\ r.tod >= SessionClose - 1}

TickStock == "2330"       \* the instrument whose tick directory receives files
EmptyStock == "1101"      \* an instrument whose tick directory holds no csv file
Stocks == {TickStock, EmptyStock}
Units == {"min", "D"}
Key(stock, timeframe, unit) == [stock |-> stock, timeframe |-> timeframe, unit |-> unit]
Keys == {Key(TickStock, 1, u) : u \in Units} \cup {Key(EmptyStock, 1, "min")}

UnitSeconds(unit) == IF unit = "min" THEN 60 ELSE DaySeconds

\* os.path.join(self.k_line_data_path, f"{self.timeframe}_{self.unit}.csv")
OutputPath(k) == <<"input/K_line", k.stock, k.timeframe, k.unit, ".csv">>

AbsTime(day, tod) == day * DaySeconds + tod

\* What is wrong with a tick row: its partition file has no column of that
\* name (after pd.concat the row holds NaN there), or its Time text cannot be
\* parsed.  A row without the field "fault" has all four columns.
ColumnNames == {"date", "Time", "deal_price", "volume"}
Malformed == "malformed"
Fault(r) == IF "fault" \in DOMAIN r THEN r.fault ELSE "none"

\* The column is in none of the partition files.
Lacks(df, col) == \A i \in 1..Len(df) : Fault(df[i]) = col

\* The exception raised on the concatenated frame before anything is written:
\* df["date"] and df["Time"], then pd.to_datetime, then agg(ohlc_dict).
FrameError(df) ==
    IF Lacks(df, "date") \/ Lacks(df, "Time") THEN "KeyError"
    ELSE IF \E i \in 1..Len(df) : Fault(df[i]) = Malformed THEN "ValueError"
    ELSE IF Lacks(df, "deal_price") \/ Lacks(df, "volume") THEN "KeyError"
    ELSE "none"

\* The rows of a bucket that carry a price and those that carry a volume:
\* first, max, min, last and sum skip NaN.
Priced(df, g) == {i \in g : Fault(df[i]) # "deal_price"}
Sized(df, g) == {i \in g : Fault(df[i]) # "volume"}

\* The window without its closing second.
InSession_ExclusiveClose(r) == r.tod >= SessionOpen /\ r.tod < SessionClose

\* df.between_time("09:00", "13:30"): both ends included
InSession(r) == r.tod >= SessionOpen /\ r.tod <= SessionClose

\* No tick is moved.
ShiftedTime_None(r) == AbsTime(r.day, r.tod)

\* df.index.where(~mask, df.index - pd.Timedelta(seconds=1))
ShiftedTime(r) == IF r.tod = SessionClose THEN AbsTime(r.day, r.tod) - 1
                  ELSE AbsTime(r.day, r.tod)

\* resample(..., closed='left', label='left'), origin = midnight of the first day
BucketLabel(t, origin, width) == origin + ((t - origin) \div width) * width

\* The bars of the concatenated rows df (a sequence of rows) at the given width.
\* resample sorts the rows by index with a stable sort, so inside a bucket rows
\* are ordered by (shifted time, row position).
Before(df, i, j) == \/ ShiftedTime(df[i]) < ShiftedTime(df[j])
                    \/ ShiftedTime(df[i]) = ShiftedTime(df[j]) /\ i < j

\* "max" and "min" replaced by "first" and "last".
Resample_AggMixed(df, width) ==
    LET kept == {i \in 1..Len(df) : InSession(df[i])}
    IN  IF kept = {} THEN <<>>
        ELSE LET origin == (Min({ShiftedTime(df[i]) : i \in kept}) \div DaySeconds) * DaySeconds
                 lab(i) == BucketLabel(ShiftedTime(df[i]), origin, width)
                 labels == SortedSeq({lab(i) : i \in kept})
                 grp(l) == {i \in kept : lab(i) = l}
                 first(g) == CHOOSE i \in g : \A j \in g \ {i} : Before(df, i, j)
                 last(g) == CHOOSE i \in g : \A j \in g \ {i} : Before(df, j, i)
             IN  [n \in 1..Len(labels) |->
                    LET g == grp(labels[n])
                    IN  [datetime |-> labels[n],
                         open  |-> df[first(g)].price,
                         high  |-> df[first(g)].price,
                         low   |-> df[last(g)].price,
                         close |-> df[last(g)].price,
                         volume |-> SumOver(g, [i \in g |-> df[i].volume])]]

Resample(df, width) ==
    LET kept == {i \in 1..Len(df) : InSession(df[i])}
    IN  IF kept = {} THEN <<>>
        ELSE LET origin == (Min({ShiftedTime(df[i]) : i \in kept}) \div DaySeconds) * DaySeconds
                 lab(i) == BucketLabel(ShiftedTime(df[i]), origin, width)
                 grp(l) == {i \in kept : lab(i) = l}
                 \* dropna(subset=["open"]): a bucket without a priced row gives no bar
                 labels == SortedSeq({lab(i) : i \in Priced(df, kept)})
                 first(g) == CHOOSE i \in g : \A j \in g \ {i} : Before(df, i, j)
                 last(g) == CHOOSE i \in g : \A j \in g \ {i} : Before(df, j, i)
             IN  [n \in 1..Len(labels) |->
                    LET g == grp(labels[n])
                        pr == Priced(df, g)
                        sz == Sized(df, g)
                    IN  [datetime |-> labels[n],
                         open  |-> df[first(pr)].price,
                         high  |-> Max({df[i].price : i \in pr}),
                         low   |-> Min({df[i].price : i \in pr}),
                         close |-> df[last(pr)].price,
                         volume |-> SumOver(sz, [i \in sz |-> df[i].volume])]]

\* if last_time.hour == 13 and last_time.minute == 35: last_time.replace(minute=30)
RelabelLast(bars) ==
    IF bars = <<>> THEN bars
    ELSE LET lt == bars[Len(bars)].datetime
             tod == lt % DaySeconds
         IN  IF tod \div 3600 = 13 /\ (tod % 3600) \div 60 = 35
             THEN [bars EXCEPT ![Len(bars)].datetime = lt - 300]
             ELSE bars

KLine(df, k) == RelabelLast(Resample(df, k.timeframe * UnitSeconds(k.unit)))

\* The orders in which os.listdir may list n partition files.
Perms(n) == {p \in [1..n -> 1..n] : \A i, j \in 1..n : p[i] = p[j] => i = j}

Concat(parts, p) == Flatten([i \in 1..Len(parts) |-> parts[p[i]]])

CallRecord(k, outcome, ret, read) == [key |-> k, outcome |-> outcome, ret |-> ret, read |-> read]

\* get_k_line: an existing file is returned as it is; otherwise the partitions
\* are listed, read, aggregated and written.  to_csv creates the file and then
\* writes the rows, so a write that fails leaves the rows written so far (fewer
\* than all of them, or an empty file when there is no bar to write).
\* os.path.exists(output_path)
CacheHit_Never(k) == FALSE

CacheHit(k) == files[k].exists

GetKLine(k) ==
    /\ UNCHANGED <<tickFiles, sigVars, runVars>>
    /\ IF CacheHit(k)
       THEN /\ lastCall' = CallRecord(k, "hit", OutputPath(k), FALSE)
            /\ completed' = completed \cup {k}
            /\ UNCHANGED <<files, fresh>>
       ELSE IF tickFiles[k.stock] = <<>>
       THEN /\ lastCall' = CallRecord(k, "FileNotFoundError", NoPath, FALSE)
            /\ UNCHANGED <<files, completed, fresh>>
       ELSE \E p \in Perms(Len(tickFiles[k.stock])) :
              LET df == Concat(tickFiles[k.stock], p)
                  bars == KLine(df, k)
              IN  IF FrameError(df) # "none"
                  THEN /\ lastCall' = CallRecord(k, FrameError(df), NoPath, TRUE)
                       /\ UNCHANGED <<files, completed, fresh>>
                  ELSE \/ /\ files' = [files EXCEPT ![k] = [exists |-> TRUE, bars |-> bars,
                                                            complete |-> TRUE]]
                          /\ lastCall' = CallRecord(k, "computed", OutputPath(k), TRUE)
                          /\ completed' = completed \cup {k}
                          /\ fresh' = fresh \cup {k}
                       \/ \E n \in 0..Max({0, Len(bars) - 1}) :
                          /\ files' = [files EXCEPT ![k] = [exists |-> TRUE,
                                                            bars |-> SubSeq(bars, 1, n),
                                                            complete |-> FALSE]]
                          /\ lastCall' = CallRecord(k, "OSError", NoPath, TRUE)
                          /\ UNCHANGED <<completed, fresh>>

\* The environment adds a tick row to a partition file of the instrument, or
\* starts a new partition file with it.
NumTicks(parts) == Len(Flatten(parts))

WriteTick(r) ==
    /\ NumTicks(tickFiles[TickStock]) < MaxTicks
    /\ \/ \E f \in 1..Len(tickFiles[TickStock]) :
            tickFiles' = [tickFiles EXCEPT ![TickStock][f] = Append(@, r)]
       \/ tickFiles' = [tickFiles EXCEPT ![TickStock] = Append(@, <<r>>)]
    /\ fresh' = {}
    /\ UNCHANGED <<files, lastCall, completed, sigVars, runVars>>

NoConfig == [variant |-> "none"]

\* Nothing is running: no pool, no loader or engine, no call in progress.
NoRun == [state |-> "none"]

RunIdle ==
    /\ pool = NoRun
    /\ engine = NoRun
    /\ inflight = NoRun

SigIdle ==
    /\ RunIdle
    /\ cfg = NoConfig
    /\ params = NoConfig
    /\ data = <<>>
    /\ signals = <<>>
    /\ raised = NoError

Init ==
    /\ tickFiles = [s \in Stocks |-> <<>>]
    /\ files = [k \in Keys |-> NoFile]
    /\ lastCall = CallRecord(NoKey, "none", NoPath, FALSE)
    /\ completed = {}
    /\ fresh = {}
    /\ SigIdle

Next ==
    \/ \E r \in LateRows : WriteTick(r)
    \/ \E k \in Keys : GetKLine(k)

Spec == Init /\ [][Next]_vars

(***************************************************************************)
(* The aggregation as a function of its input: the tick directory is any   *)
(* set of at most two partition files with at most MaxInputTicks rows in   *)
(* any row order, and get_k_line is called for the keys.                   *)
(***************************************************************************)
RowSeqs(maxRows) == UNION {[1..n -> Rows] : n \in 0..maxRows}

TickDirs(maxRows) ==
    {<<>>} \cup {<<rs>> : rs \in RowSeqs(maxRows) \ {<<>>}}
           \cup UNION {{<<SubSeq(rs, 1, c), SubSeq(rs, c + 1, Len(rs))>> : c \in 1..(Len(rs) - 1)} :
                          rs \in RowSeqs(maxRows)}

InitAgg ==
    /\ \E dir \in TickDirs(MaxInputTicks) : tickFiles = [s \in Stocks |-> IF s = TickStock THEN dir ELSE <<>>]
    /\ files = [k \in Keys |-> NoFile]
    /\ lastCall = CallRecord(NoKey, "none", NoPath, FALSE)
    /\ completed = {}
    /\ fresh = {}
    /\ SigIdle

NextAgg == \E k \in Keys : GetKLine(k)

SpecAgg == InitAgg /\ [][NextAgg]_vars

(***************************************************************************)
(* The aggregation of tick directories whose files lack a column or hold a *)
(* Time text that cannot be parsed.  Every partition file holds one row;   *)
(* the date and Time columns are in all of the files or in none of them.   *)
(***************************************************************************)
MaxParts == 2         \* partition files of a tick directory with faulty files

FaultRows == [day : {0}, tod : {SessionOpen}, price : TickPrices, volume : {1},
              fault : ColumnNames \cup {Malformed, "none"}]

FaultDirs ==
    {dir \in UNION {[1..n -> {<<r>> : r \in FaultRows}] : n \in 1..MaxParts} :
        \A col \in {"date", "Time"} :
            (\E f \in 1..Len(dir) : dir[f][1].fault = col) => Lacks(Flatten(dir), col)}

InitFaults ==
    /\ \E dir \in FaultDirs : tickFiles = [s \in Stocks |-> IF s = TickStock THEN dir ELSE <<>>]
    /\ files = [k \in Keys |-> NoFile]
    /\ lastCall = CallRecord(NoKey, "none", NoPath, FALSE)
    /\ completed = {}
    /\ fresh = {}
    /\ SigIdle

NextFaults == \E k \in Keys : GetKLine(k)

SpecFaults == InitFaults /\ [][NextFaults]_vars

(***************************************************************************)
(* Claims about KLineGenerator.get_k_line                                  *)
(***************************************************************************)
\* The rows of the instrument's tick files, in file order.
\* Aggregation at other widths: five minutes and twenty hours (a width that
\* does not divide a day).
WidthKeys == {Key(TickStock, 5, "min"), Key(TickStock, 1200, "min"), Key(EmptyStock, 5, "min")}

InitWidths ==
    /\ \E dir \in TickDirs(MaxInputTicks) : tickFiles = [s \in Stocks |-> IF s = TickStock THEN dir ELSE <<>>]
    /\ files = [k \in WidthKeys |-> NoFile]
    /\ lastCall = CallRecord(NoKey, "none", NoPath, FALSE)
    /\ completed = {}
    /\ fresh = {}
    /\ SigIdle

NextWidths == \E k \in WidthKeys : GetKLine(k)

SpecWidths == InitWidths /\ [][NextWidths]_vars

TickRows(stock) == Flatten(tickFiles[stock])

\* The bucket of each in-session row and the rows of one bucket, from the rows
\* themselves (no row order involved).
OriginOf(rows) ==
    (Min({ShiftedTime(rows[i]) : i \in {j \in 1..Len(rows) : InSession(rows[j])}}) \div DaySeconds)
        * DaySeconds

BucketOf(rows, i, k) ==
    BucketLabel(ShiftedTime(rows[i]), OriginOf(rows), k.timeframe * UnitSeconds(k.unit))

BucketRows(rows, l, k) == {i \in 1..Len(rows) : InSession(rows[i]) /\ BucketOf(rows, i, k) = l}

Stamp(r) == AbsTime(r.day, r.tod)       \* the time the tick carries in its file

\* One bar per bucket with a tick, none for a bucket without.
OneBarPerBucket(bars, rows, k) ==
    /\ \A i \in 1..Len(rows) : InSession(rows[i]) =>
          Cardinality({n \in 1..Len(bars) : bars[n].datetime = BucketOf(rows, i, k)}) = 1
    /\ \A n \in 1..Len(bars) : BucketRows(rows, bars[n].datetime, k) # {}

\* The first and the last tick of a bucket are the ones with the earliest and
\* the latest file time stamp; ticks with equal stamps may each count as such.
BarFromTicks(b, rows, k) ==
    LET g == BucketRows(rows, b.datetime, k)
    IN  /\ \E i \in g : (\A j \in g : Stamp(rows[i]) <= Stamp(rows[j])) /\ b.open = rows[i].price
        /\ \E i \in g : (\A j \in g : Stamp(rows[i]) >= Stamp(rows[j])) /\ b.close = rows[i].price
        /\ b.high = Max({rows[i].price : i \in g})
        /\ b.low = Min({rows[i].price : i \in g})
        /\ b.volume = SumOver(g, [i \in g |-> rows[i].volume])

\* C1: every bar get_k_line emits has open = the price of the chronologically
\* first in-session tick of its bucket, close = that of the chronologically
\* last, high = the maximum, low = the minimum and volume = the sum of the
\* volumes of the bucket's ticks; a bucket without ticks has no bar and a
\* bucket with ticks has exactly one.
C1_BarsFromTicks ==
    \A k \in fresh :
        /\ OneBarPerBucket(files[k].bars, TickRows(k.stock), k)
        /\ \A n \in 1..Len(files[k].bars) : BarFromTicks(files[k].bars[n], TickRows(k.stock), k)

C3_NoArtifactAfterFailure ==
    /\ lastCall.outcome \in {"FileNotFoundError", "OSError"} => ~files[lastCall.key].exists
    /\ lastCall.outcome = "hit" => files[lastCall.key].complete

(***************************************************************************)
(* Exact arithmetic for the price series.  A value is <<n, d>> with d > 0  *)
(* in lowest terms; NaN is <<0, 0>>.  Closes are positive, so every        *)
(* division by zero the code can meet is 0/0, which numpy and pandas give  *)
(* as NaN.  Floating-point rounding is not modelled.                       *)
(***************************************************************************)
Abs(n) == IF n < 0 THEN -n ELSE n

RECURSIVE GCD(_, _)
GCD(a, b) == IF b = 0 THEN a ELSE GCD(b, a % b)

Rat(n, d) ==
    LET sg == IF d < 0 THEN -1 ELSE 1
        g == GCD(Abs(n), Abs(d))
    IN  <<(sg * n) \div g, (sg * d) \div g>>

FromInt(n) == <<n, 1>>
IsNaN(x) == x[2] = 0

\* a/b < c/d for b, d > 0, by comparing integer parts and then the reciprocals
\* of the fractional parts (no product is formed).
RECURSIVE FracLt(_, _, _, _)
FracLt(a, b, c, d) ==
    LET q1 == a \div b
        q2 == c \div d
        r1 == a % b
        r2 == c % d
    IN  IF q1 # q2 THEN q1 < q2
        ELSE IF r2 = 0 THEN FALSE
        ELSE IF r1 = 0 THEN TRUE
        ELSE FracLt(d, r2, b, r1)

\* Comparisons are False when an operand is NaN, as in numpy.
RLt(x, y) == ~IsNaN(x) /\ ~IsNaN(y) /\ FracLt(x[1], x[2], y[1], y[2])
RGt(x, y) == RLt(y, x)
RLe(x, y) == ~IsNaN(x) /\ ~IsNaN(y) /\ ~FracLt(y[1], y[2], x[1], x[2])
RGe(x, y) == RLe(y, x)

RNeg(x) == IF IsNaN(x) THEN NaN ELSE <<-x[1], x[2]>>

RAdd(x, y) ==
    IF IsNaN(x) \/ IsNaN(y) THEN NaN
    ELSE LET g == GCD(x[2], y[2])
         IN  Rat(x[1] * (y[2] \div g) + y[1] * (x[2] \div g), (x[2] \div g) * y[2])

RSub(x, y) == RAdd(x, RNeg(y))

RMul(x, y) ==
    IF IsNaN(x) \/ IsNaN(y) THEN NaN
    ELSE LET g1 == GCD(Abs(x[1]), y[2])
             g2 == GCD(Abs(y[1]), x[2])
         IN  Rat((x[1] \div g1) * (y[1] \div g2), (x[2] \div g2) * (y[2] \div g1))

RDiv(x, y) ==
    IF IsNaN(x) \/ IsNaN(y) \/ y[1] = 0 THEN NaN
    ELSE RMul(x, IF y[1] < 0 THEN <<-y[2], -y[1]>> ELSE <<y[2], y[1]>>)

RECURSIVE RSum(_, _, _)
RSum(s, lo, hi) == IF lo > hi THEN FromInt(0) ELSE RAdd(s[lo], RSum(s, lo + 1, hi))

(***************************************************************************)
(* pandas Series operations the strategies use.  A series is a sequence of *)
(* values; its index is the position.                                      *)
(***************************************************************************)
Closes(d) == [t \in 1..Len(d) |-> FromInt(d[t])]                  \* data['close']

Shift(s) == [t \in 1..Len(s) |-> IF t = 1 THEN NaN ELSE s[t - 1]]  \* s.shift(1)

Diff(s, n) == [t \in 1..Len(s) |-> IF t <= n THEN NaN ELSE RSub(s[t], s[t - n])]   \* s.diff(n)

\* s.rolling(window=p).mean(): NaN until p values are there
RollingMean(s, p) ==
    [t \in 1..Len(s) |-> IF t < p THEN NaN ELSE RDiv(RSum(s, t - p + 1, t), FromInt(p))]

\* s.ewm(span=p, adjust=False).mean(): y_1 = s_1, y_t = a * s_t + (1 - a) * y_(t-1)
\* with a = 2 / (p + 1)
RECURSIVE EwmUpTo(_, _, _)
EwmUpTo(s, p, n) ==
    IF n = 0 THEN <<>>
    ELSE LET prev == EwmUpTo(s, p, n - 1)
         IN  IF n = 1 THEN <<s[1]>>
             ELSE Append(prev, RAdd(RMul(Rat(2, p + 1), s[n]), RMul(Rat(p - 1, p + 1), prev[n - 1])))

EwmMean(s, p) == EwmUpTo(s, p, Len(s))

\* s.rolling(p).apply(lambda prices: np.dot(prices, weights) / weights.sum()),
\* weights = 1..p
RECURSIVE Dot(_, _, _)
Dot(s, first, p) ==
    IF p = 0 THEN FromInt(0)
    ELSE RAdd(RMul(FromInt(p), s[first + p - 1]), Dot(s, first, p - 1))

RollingWeighted(s, p) ==
    [t \in 1..Len(s) |->
        IF t < p THEN NaN ELSE RDiv(Dot(s, t - p + 1, p), FromInt((p * (p + 1)) \div 2))]

\* The moving average of the selected kind.
MovingAverage(kind, s, p) ==
    CASE kind = "SMA" -> RollingMean(s, p)
      [] kind = "EMA" -> EwmMean(s, p)
      [] kind = "WMA" -> RollingWeighted(s, p)

\* The same assignments on a series that has lost its first bar, the one bar
\* without a predecessor.
Assign_DropLeading(golden, death, n) ==
    [t \in 1..(n - 1) |-> IF death[t + 1] THEN -1 ELSE IF golden[t + 1] THEN 1 ELSE 0]

\* signals = pd.Series(0, ...); signals[golden] = 1; signals[death] = -1
Assign(golden, death, n) ==
    [t \in 1..n |-> IF death[t] THEN -1 ELSE IF golden[t] THEN 1 ELSE 0]

(***************************************************************************)
(* The strategies.  A configuration is what the constructor is given.      *)
(***************************************************************************)
MaxLen == 6           \* bars in a series given to calculate_signals
MaxPeriod == 3        \* moving-average periods are 1..MaxPeriod
MaxSlopePeriod == 2   \* slope windows are 1..MaxSlopePeriod
ScenarioLen == 8      \* bars in a series of the two-level scenario

TrendLen == 4         \* bars in a series of three price levels
GroupLen == 4         \* bars in a series given to GMMA

ClosePrices == {1, 2}
TrendPrices == {1, 2, 3}
ScenarioPrices == {10, 20}
ScenarioPeriods == {2, 4}
Kinds == {"SMA", "EMA", "WMA"}
Methods == {"M1", "M2", "M3", "M4"}
UnknownKind == "HMA"      \* a ma_type that none of the if/elif branches tests for
UnknownMethod == "M5"     \* a method that none of the if/elif branches tests for

\* The exceptions calculate_signals and calculate_beta raise.
UnsupportedKind == "ValueError: unsupported MA type"            \* raised by ma() of TMAC and GMMA
UnsupportedMethod == "ValueError: unsupported method"           \* raised by SMASStrategy.calculate_beta
UnboundMA == "UnboundLocalError: fast_ma"                       \* fast_ma was never assigned
NoneMA == "AttributeError: NoneType has no attribute diff"      \* create_ma returned None
NotAligned == "ValueError: not identically-labeled Series"      \* beta > threshold on two series
Periods == 1..MaxPeriod
Thresholds == {<<0, 1>>, <<1, 2>>, <<1, 1>>, <<-1, 2>>}
\* Period groups of GMMA: increasing lists of one or two periods.
Groups == {<<p>> : p \in Periods} \cup {pq \in Periods \X Periods : pq[1] < pq[2]}

\* ---- SMAC -------------------------------------------------------------
SMAC_Configs == [variant : {"SMAC"}, period : Periods]

\* SMACStrategy.calculate_signals: the moving average is always wma
SMAC_ma(c, d) == RollingWeighted(Closes(d), c.period)

\* The level test alone, without the previous bar.
SMAC_golden_Level(c, d) ==
    LET close == Closes(d)
        ma == SMAC_ma(c, d)
    IN  [t \in 1..Len(d) |-> RGt(close[t], ma[t])]

SMAC_golden(c, d) ==
    LET close == Closes(d)
        ma == SMAC_ma(c, d)
        prev_close == Shift(close)
        prev_ma == Shift(ma)
    IN  [t \in 1..Len(d) |-> RGt(close[t], ma[t]) /\ RLe(prev_close[t], prev_ma[t])]

\* The level test alone, without the previous bar.
SMAC_death_Level(c, d) ==
    LET close == Closes(d)
        ma == SMAC_ma(c, d)
    IN  [t \in 1..Len(d) |-> RLt(close[t], ma[t])]

SMAC_death(c, d) ==
    LET close == Closes(d)
        ma == SMAC_ma(c, d)
        prev_close == Shift(close)
        prev_ma == Shift(ma)
    IN  [t \in 1..Len(d) |-> RLt(close[t], ma[t]) /\ RGe(prev_close[t], prev_ma[t])]

SMAC_signals(c, d) == Assign(SMAC_golden(c, d), SMAC_death(c, d), Len(d))

\* ---- DMAC -------------------------------------------------------------
DMAC_Configs == [variant : {"DMAC"}, ma_type : Kinds, fast_period : Periods, slow_period : Periods]

DMAC_fast(c, d) == MovingAverage(c.ma_type, Closes(d), c.fast_period)
DMAC_slow(c, d) == MovingAverage(c.ma_type, Closes(d), c.slow_period)

\* The level test alone, without the previous bar.
DMAC_golden_Level(c, d) ==
    LET fast == DMAC_fast(c, d)
        slow == DMAC_slow(c, d)
    IN  [t \in 1..Len(d) |-> RGt(fast[t], slow[t])]

DMAC_golden(c, d) ==
    LET fast == DMAC_fast(c, d)
        slow == DMAC_slow(c, d)
        prev_fast == Shift(fast)
        prev_slow == Shift(slow)
    IN  [t \in 1..Len(d) |-> RGt(fast[t], slow[t]) /\ RLe(prev_fast[t], prev_slow[t])]

\* The previous bar alone, without the level test.
DMAC_death_Level(c, d) ==
    LET prev_fast == Shift(DMAC_fast(c, d))
        prev_slow == Shift(DMAC_slow(c, d))
    IN  [t \in 1..Len(d) |-> RGe(prev_fast[t], prev_slow[t])]

DMAC_death(c, d) ==
    LET fast == DMAC_fast(c, d)
        slow == DMAC_slow(c, d)
        prev_fast == Shift(fast)
        prev_slow == Shift(slow)
    IN  [t \in 1..Len(d) |-> RLt(fast[t], slow[t]) /\ RGe(prev_fast[t], prev_slow[t])]

DMAC_signals(c, d) == Assign(DMAC_golden(c, d), DMAC_death(c, d), Len(d))

\* ---- TMAC -------------------------------------------------------------
TMAC_Configs == [variant : {"TMAC"}, ma_type : Kinds,
                 short_period : Periods, mid_period : Periods, long_period : Periods]

TMAC_ma(c, d, period) == MovingAverage(c.ma_type, Closes(d), period)

\* Both pairs have to cross at once: & in the place of |.
TMAC_golden_BothPairs(c, d) ==
    LET short == TMAC_ma(c, d, c.short_period)
        mid == TMAC_ma(c, d, c.mid_period)
        long == TMAC_ma(c, d, c.long_period)
        prev_short == Shift(short)
        prev_mid == Shift(mid)
        prev_long == Shift(long)
    IN  [t \in 1..Len(d) |->
            /\ RGt(short[t], mid[t]) /\ RGt(mid[t], long[t])
            /\ (RLe(prev_short[t], prev_mid[t]) /\ RLe(prev_mid[t], prev_long[t]))]

TMAC_golden(c, d) ==
    LET short == TMAC_ma(c, d, c.short_period)
        mid == TMAC_ma(c, d, c.mid_period)
        long == TMAC_ma(c, d, c.long_period)
        prev_short == Shift(short)
        prev_mid == Shift(mid)
        prev_long == Shift(long)
    IN  [t \in 1..Len(d) |->
            /\ RGt(short[t], mid[t]) /\ RGt(mid[t], long[t])
            /\ (RLe(prev_short[t], prev_mid[t]) \/ RLe(prev_mid[t], prev_long[t]))]

TMAC_death(c, d) ==
    LET short == TMAC_ma(c, d, c.short_period)
        mid == TMAC_ma(c, d, c.mid_period)
        long == TMAC_ma(c, d, c.long_period)
        prev_short == Shift(short)
        prev_mid == Shift(mid)
        prev_long == Shift(long)
    IN  [t \in 1..Len(d) |->
            /\ RLt(short[t], mid[t]) /\ RLt(mid[t], long[t])
            /\ (RGe(prev_short[t], prev_mid[t]) \/ RGe(prev_mid[t], prev_long[t]))]

TMAC_signals(c, d) == Assign(TMAC_golden(c, d), TMAC_death(c, d), Len(d))

\* ---- GMMA -------------------------------------------------------------
GMMA_Configs == [variant : {"GMMA"}, ma_type : Kinds, short_periods : Groups, long_periods : Groups]

GMMA_mas(c, d, periods) ==
    [a \in 1..Len(periods) |-> MovingAverage(c.ma_type, Closes(d), periods[a])]

\* short[i] in the place of short[i - 1]
GMMA_prev_Same(i, n) == i

\* short[i - 1] with i = 0 is short[-1], the last value of the series
GMMA_prev(i, n) == IF i = 1 THEN n ELSE i - 1

\* The level test alone: a signal at every bar of a separation.
GMMA_signals_Level(c, d) ==
    LET short_mas == GMMA_mas(c, d, c.short_periods)
        long_mas == GMMA_mas(c, d, c.long_periods)
        S == 1..Len(short_mas)
        L == 1..Len(long_mas)
    IN  [i \in 1..Len(d) |->
            IF \A a \in S, b \in L : RGt(short_mas[a][i], long_mas[b][i]) THEN 1
            ELSE IF \A a \in S, b \in L : RLt(short_mas[a][i], long_mas[b][i]) THEN -1
            ELSE 0]

\* One separated pair in the place of every pair.
GMMA_signals_SomePair(c, d) ==
    LET short_mas == GMMA_mas(c, d, c.short_periods)
        long_mas == GMMA_mas(c, d, c.long_periods)
        S == 1..Len(short_mas)
        L == 1..Len(long_mas)
        n == Len(d)
    IN  [i \in 1..n |->
            IF \E a \in S, b \in L : RGt(short_mas[a][i], long_mas[b][i])
            THEN IF \E a \in S, b \in L :
                      RLe(short_mas[a][GMMA_prev(i, n)], long_mas[b][GMMA_prev(i, n)])
                 THEN 1 ELSE 0
            ELSE IF \A a \in S, b \in L : RLt(short_mas[a][i], long_mas[b][i])
            THEN IF \E a \in S, b \in L :
                      RGe(short_mas[a][GMMA_prev(i, n)], long_mas[b][GMMA_prev(i, n)])
                 THEN -1 ELSE 0
            ELSE 0]

GMMA_signals(c, d) ==
    LET short_mas == GMMA_mas(c, d, c.short_periods)
        long_mas == GMMA_mas(c, d, c.long_periods)
        S == 1..Len(short_mas)
        L == 1..Len(long_mas)
        n == Len(d)
    IN  [i \in 1..n |->
            IF \A a \in S, b \in L : RGt(short_mas[a][i], long_mas[b][i])
            THEN IF \E a \in S, b \in L :
                      RLe(short_mas[a][GMMA_prev(i, n)], long_mas[b][GMMA_prev(i, n)])
                 THEN 1 ELSE 0
            ELSE IF \A a \in S, b \in L : RLt(short_mas[a][i], long_mas[b][i])
            THEN IF \E a \in S, b \in L :
                      RGe(short_mas[a][GMMA_prev(i, n)], long_mas[b][GMMA_prev(i, n)])
                 THEN -1 ELSE 0
            ELSE 0]

\* The conditions under which the loop of GMMA writes 1 and -1
GMMA_up(c, d) ==
    LET short_mas == GMMA_mas(c, d, c.short_periods)
        long_mas == GMMA_mas(c, d, c.long_periods)
        S == 1..Len(short_mas)
        L == 1..Len(long_mas)
        n == Len(d)
    IN  [i \in 1..n |->
            /\ \A a \in S, b \in L : RGt(short_mas[a][i], long_mas[b][i])
            /\ \E a \in S, b \in L :
                  RLe(short_mas[a][GMMA_prev(i, n)], long_mas[b][GMMA_prev(i, n)])]

GMMA_down(c, d) ==
    LET short_mas == GMMA_mas(c, d, c.short_periods)
        long_mas == GMMA_mas(c, d, c.long_periods)
        S == 1..Len(short_mas)
        L == 1..Len(long_mas)
        n == Len(d)
    IN  [i \in 1..n |->
            /\ \A a \in S, b \in L : RLt(short_mas[a][i], long_mas[b][i])
            /\ \E a \in S, b \in L :
                  RGe(short_mas[a][GMMA_prev(i, n)], long_mas[b][GMMA_prev(i, n)])]

\* ---- SMAS -------------------------------------------------------------
\* ma_period and slope_period are 1..MaxSlopePeriod.
SMAS_Configs == [variant : {"SMAS"}, method : Methods, ma_type : Kinds,
                 ma_period : 1..MaxSlopePeriod, slope_period : 1..MaxSlopePeriod,
                 threshold : Thresholds]

\* params.threshold holds the configured number until an M4 run stores a series in it.
Scalar(v) == [isSeries |-> FALSE, value |-> v, values |-> <<>>]
SeriesOf(vs) == [isSeries |-> TRUE, value |-> NaN, values |-> vs]
\* params.ma and params.beta are None until calculate_signals stores a series.
NoSeries == [isNone |-> TRUE, values |-> <<>>]
Stored(vs) == [isNone |-> FALSE, values |-> vs]

\* SMASStrategy.create_ma
SMAS_create_ma(c, d, period) == MovingAverage(c.ma_type, Closes(d), period)

\* x * |x|: the z-score of M3 divides by a standard deviation, a square root,
\* so the model keeps z * |z| (exact, and ordered as z is) and compares it
\* with theta * |theta|.
SignedSquare(x) == IF IsNaN(x) THEN NaN ELSE <<x[1] * Abs(x[1]), x[2] * x[2]>>

\* s.rolling(window=n).std() squared: the sample variance (ddof = 1)
RECURSIVE SumSqDev(_, _, _, _)
SumSqDev(s, m, lo, hi) ==
    IF lo > hi THEN FromInt(0)
    ELSE RAdd(RMul(RSub(s[lo], m), RSub(s[lo], m)), SumSqDev(s, m, lo + 1, hi))

RollingVar(s, n) ==
    LET mean == RollingMean(s, n)
    IN  [t \in 1..Len(s) |->
            IF t < n THEN NaN
            ELSE RDiv(SumSqDev(s, mean[t], t - n + 1, t), FromInt(n - 1))]

\* (slope - mean) / std, kept as its signed square
ZScore(slope, n) ==
    LET mean == RollingMean(slope, n)
        var == RollingVar(slope, n)
    IN  [t \in 1..Len(slope) |->
            LET dev == RSub(slope[t], mean[t])
            IN  IF IsNaN(dev) \/ IsNaN(var[t]) THEN NaN
                ELSE RDiv(SignedSquare(dev), var[t])]

RECURSIVE InsertSorted(_, _)
InsertSorted(vs, x) ==
    IF vs = <<>> THEN <<x>>
    ELSE IF RLe(x, Head(vs)) THEN <<x>> \o vs
    ELSE <<Head(vs)>> \o InsertSorted(Tail(vs), x)

RECURSIVE SortedValues(_, _)
SortedValues(s, t) ==      \* the values of s[1..t] that are not NaN, ascending
    IF t = 0 THEN <<>>
    ELSE IF IsNaN(s[t]) THEN SortedValues(s, t - 1)
    ELSE InsertSorted(SortedValues(s, t - 1), s[t])

\* s.expanding().quantile(qn / qd): linear interpolation over the values seen so far
ExpandingQuantile_WholeSeries(s, qn, qd) ==
    [t \in 1..Len(s) |->
        LET vs == SortedValues(s, Len(s))
            pos == qn * (Len(vs) - 1)
            idx == pos \div qd
            rem == pos % qd
        IN  IF Len(vs) = 0 THEN NaN
            ELSE IF rem = 0 THEN vs[idx + 1]
            ELSE RAdd(vs[idx + 1], RMul(RSub(vs[idx + 2], vs[idx + 1]), Rat(rem, qd)))]

ExpandingQuantile(s, qn, qd) ==
    [t \in 1..Len(s) |->
        LET vs == SortedValues(s, t)
            pos == qn * (Len(vs) - 1)
            idx == pos \div qd
            rem == pos % qd
        IN  IF Len(vs) = 0 THEN NaN
            ELSE IF rem = 0 THEN vs[idx + 1]
            ELSE RAdd(vs[idx + 1], RMul(RSub(vs[idx + 2], vs[idx + 1]), Rat(rem, qd)))]

\* M4 leaves params.threshold as it was.
SMAS_calculate_beta_KeepThreshold(method, ma, period, thr) ==
    LET diff == Diff(ma, period)
        prev_ma == Shift(ma)
        slope == [t \in 1..Len(ma) |-> RDiv(diff[t], FromInt(period))]
        pct == [t \in 1..Len(ma) |-> RDiv(slope[t], prev_ma[t])]
        beta == CASE method = "M1" -> slope
                  [] method = "M2" -> [t \in 1..Len(ma) |-> RMul(pct[t], FromInt(100))]
                  [] method = "M3" -> ZScore(slope, period)
                  [] method = "M4" -> pct
    IN  [beta |-> Shift(beta), threshold |-> thr]

\* SMASStrategy.calculate_beta: the shifted beta and the value params.threshold
\* has afterwards (thr is its value before)
SMAS_calculate_beta(method, ma, period, thr) ==
    LET diff == Diff(ma, period)
        prev_ma == Shift(ma)
        slope == [t \in 1..Len(ma) |-> RDiv(diff[t], FromInt(period))]
        pct == [t \in 1..Len(ma) |-> RDiv(slope[t], prev_ma[t])]
        beta == CASE method = "M1" -> slope
                  [] method = "M2" -> [t \in 1..Len(ma) |-> RMul(pct[t], FromInt(100))]
                  [] method = "M3" -> ZScore(slope, period)
                  [] method = "M4" -> pct
        q1 == ExpandingQuantile(beta, 1, 4)
        q3 == ExpandingQuantile(beta, 3, 4)
    IN  [beta |-> Shift(beta),
         threshold |-> IF method = "M4"
                       THEN SeriesOf([t \in 1..Len(ma) |-> RSub(q3[t], q1[t])])
                       ELSE thr]

\* The params object after calculate_signals(d).  With a ma_type that no
\* branch of create_ma tests for, create_ma returns None, which is stored in
\* params.ma before calculate_beta fails on it; with an unknown method
\* calculate_beta raises before params.beta is assigned.
SMAS_params(c, prm, d) ==
    IF c.ma_type \notin Kinds THEN [prm EXCEPT !.ma = NoSeries]
    ELSE LET ma == SMAS_create_ma(c, d, c.ma_period)
         IN  IF c.method \notin Methods THEN [prm EXCEPT !.ma = Stored(ma)]
             ELSE LET r == SMAS_calculate_beta(c.method, ma, c.slope_period, prm.threshold)
                  IN  [threshold |-> r.threshold, ma |-> Stored(ma), beta |-> Stored(r.beta)]

\* The exception SMASStrategy.calculate_signals raises; after is the params
\* object as the call has left it.  A threshold that is a series is compared
\* with beta label by label, which pandas refuses unless the two series carry
\* the same index (here: the same positions 1..n).
SMAS_raises(c, after, d) ==
    IF c.ma_type \notin Kinds THEN NoneMA
    ELSE IF c.method \notin Methods THEN UnsupportedMethod
    ELSE IF after.threshold.isSeries /\ Len(after.threshold.values) # Len(d) THEN NotAligned
    ELSE NoError

\* params.threshold at position t, on the scale of the stored beta
SMAS_threshold(c, prm, t) ==
    LET th == IF prm.threshold.isSeries THEN prm.threshold.values[t] ELSE prm.threshold.value
    IN  IF c.method = "M3" THEN SignedSquare(th) ELSE th

\* The comparison with -theta replaced by one with theta.
SMAS_signals_NoNegation(c, after, d) ==
    LET beta == after.beta.values
        theta == [t \in 1..Len(d) |-> SMAS_threshold(c, after, t)]
    IN  Assign([t \in 1..Len(d) |-> RGt(beta[t], theta[t])],
               [t \in 1..Len(d) |-> RLt(beta[t], theta[t])],
               Len(d))

\* The comparisons of calculate_signals, on the params object as the call has set it
SMAS_signals(c, after, d) ==
    LET beta == after.beta.values
        theta == [t \in 1..Len(d) |-> SMAS_threshold(c, after, t)]
    IN  Assign([t \in 1..Len(d) |-> RGt(beta[t], theta[t])],
               [t \in 1..Len(d) |-> RLt(beta[t], RNeg(theta[t]))],
               Len(d))

\* ---- test.py ----------------------------------------------------------
\* calc_signals(ma, slope_period, thresh) on ma = price.rolling(ma_period).mean()
DEMO_Configs == [variant : {"DEMO"}, ma_period : 1..MaxSlopePeriod,
                 slope_period : 1..MaxPeriod, thresh : {<<0, 1>>, <<1, 2>>}]

\* beta(window): the OLS slope of the window against t = 0..n-1
RECURSIVE OlsNum(_, _, _, _, _)
OlsNum(ma, first, n, i, y_mean) ==
    IF i = n THEN FromInt(0)
    ELSE RAdd(RMul(RSub(FromInt(i), Rat(n - 1, 2)), RSub(ma[first + i], y_mean)),
              OlsNum(ma, first, n, i + 1, y_mean))

RECURSIVE OlsDenom(_, _)
OlsDenom(n, i) ==
    IF i = n THEN FromInt(0)
    ELSE RAdd(RMul(RSub(FromInt(i), Rat(n - 1, 2)), RSub(FromInt(i), Rat(n - 1, 2))),
              OlsDenom(n, i + 1))

DEMO_beta_series(ma, n) ==
    LET y_mean == RollingMean(ma, n)
        denom == OlsDenom(n, 0)
    IN  [t \in 1..Len(ma) |->
            IF t < n THEN NaN
            ELSE RDiv(OlsNum(ma, t - n + 1, n, 0, y_mean[t]), denom)]

DEMO_calc_signals(c, d) ==
    LET ma == RollingMean(Closes(d), c.ma_period)
        beta_shift == Shift(DEMO_beta_series(ma, c.slope_period))
    IN  Assign([t \in 1..Len(d) |-> RGt(beta_shift[t], c.thresh)],
               [t \in 1..Len(d) |-> RLt(beta_shift[t], RNeg(c.thresh))],
               Len(d))

\* ---- calculate_signals --------------------------------------------------
SigConfigs == SMAC_Configs \cup DMAC_Configs \cup TMAC_Configs \cup GMMA_Configs
                \cup SMAS_Configs \cup DEMO_Configs

InitialParams(c) ==
    IF c.variant = "SMAS"
    THEN [threshold |-> Scalar(c.threshold), ma |-> NoSeries, beta |-> NoSeries]
    ELSE NoConfig

\* The series calculate_signals(d) returns; after is the params object it leaves
Signals(c, after, d) ==
    CASE c.variant = "SMAC" -> SMAC_signals(c, d)
      [] c.variant = "DMAC" -> DMAC_signals(c, d)
      [] c.variant = "TMAC" -> TMAC_signals(c, d)
      [] c.variant = "GMMA" -> GMMA_signals(c, d)
      [] c.variant = "SMAS" -> SMAS_signals(c, after, d)
      [] c.variant = "DEMO" -> DEMO_calc_signals(c, d)

ParamsAfter(c, prm, d) == IF c.variant = "SMAS" THEN SMAS_params(c, prm, d) ELSE prm

\* The exception calculate_signals(d) raises, or NoError.  DMAC has no else
\* branch: with an unknown ma_type fast_ma is read without having been
\* assigned.  SMAC takes no ma_type.
Raises(c, after, d) ==
    CASE c.variant = "DMAC" -> IF c.ma_type \in Kinds THEN NoError ELSE UnboundMA
      [] c.variant = "TMAC" -> IF c.ma_type \in Kinds THEN NoError ELSE UnsupportedKind
      [] c.variant = "GMMA" -> IF c.ma_type \in Kinds THEN NoError ELSE UnsupportedKind
      [] c.variant = "SMAS" -> SMAS_raises(c, after, d)
      [] OTHER -> NoError

\* strategy.calculate_signals(data) on the bar series with closes d; a call
\* that raises returns no series
CalculateSignals(d) ==
    /\ data' = d
    /\ params' = ParamsAfter(cfg, params, d)
    /\ raised' = Raises(cfg, params', d)
    /\ signals' = IF raised' = NoError THEN Signals(cfg, params', d) ELSE <<>>
    /\ UNCHANGED <<cfg, aggVars, runVars>>

\* strategy.calculate_beta(method, ma, period) called on the strategy object
\* from outside: the beta it returns is not kept, the threshold M4 stores is.
CalculateBeta(method, ma, period) ==
    /\ cfg.variant = "SMAS"
    /\ raised' = IF method \in Methods THEN NoError ELSE UnsupportedMethod
    /\ params' = IF method \in Methods
                 THEN [params EXCEPT !.threshold =
                          SMAS_calculate_beta(method, ma, period, params.threshold).threshold]
                 ELSE params
    /\ UNCHANGED <<cfg, data, signals, aggVars, runVars>>

\* The series the next call is given: the last one with a bar appended or with
\* one bar's close changed.  Any two series of a length are linked by a chain
\* of such changes.
Revisions(d, prices, maxLen) ==
    {Append(d, x) : x \in IF Len(d) < maxLen THEN prices ELSE {}}
        \cup {[d EXCEPT ![i] = x] : i \in 1..Len(d), x \in prices}

AggIdle ==
    /\ tickFiles = [s \in Stocks |-> <<>>]
    /\ files = [k \in Keys |-> NoFile]
    /\ lastCall = CallRecord(NoKey, "none", NoPath, FALSE)
    /\ completed = {}
    /\ fresh = {}

\* A strategy is constructed with one of the configurations and has not run yet.
Constructed(configs) ==
    /\ AggIdle
    /\ cfg \in configs
    /\ params = InitialParams(cfg)
    /\ data = <<>>
    /\ signals = <<>>
    /\ raised = NoError
    /\ RunIdle

InitSig == Constructed(SigConfigs)
NextSig == \E d \in Revisions(data, ClosePrices, MaxLen) \ {data} : CalculateSignals(d)
SpecSig == InitSig /\ [][NextSig]_vars

\* One variant at a time.
InitSMAC == Constructed(SMAC_Configs)
SpecSMAC == InitSMAC /\ [][NextSig]_vars

\* SlopeThreshold with every method.
InitSMAS == Constructed(SMAS_Configs)
SpecSMAS == InitSMAS /\ [][NextSig]_vars

\* SlopeThreshold with the interquartile method only.
M4_Configs == {c \in SMAS_Configs : c.method = "M4"}
InitM4 == Constructed(M4_Configs)
SpecM4 == InitM4 /\ [][NextSig]_vars

\* The four cross-based variants.
Cross_Configs == SMAC_Configs \cup DMAC_Configs \cup TMAC_Configs \cup GMMA_Configs
InitCross == Constructed(Cross_Configs)
SpecCross == InitCross /\ [][NextSig]_vars

\* TMAC on series of three price levels.
InitTMAC == Constructed(TMAC_Configs)
NextTMAC == \E d \in Revisions(data, TrendPrices, TrendLen) \ {data} : CalculateSignals(d)
SpecTMAC == InitTMAC /\ [][NextTMAC]_vars

\* GMMA on short series.
InitGMMA == Constructed(GMMA_Configs)
NextGMMA == \E d \in Revisions(data, ClosePrices, GroupLen) \ {data} : CalculateSignals(d)
SpecGMMA == InitGMMA /\ [][NextGMMA]_vars

\* DMAC on series of two price levels, with the periods 2 and 4.
InitDMAC == Constructed([variant : {"DMAC"}, ma_type : Kinds,
                         fast_period : ScenarioPeriods, slow_period : ScenarioPeriods])
NextDMAC == \E d \in Revisions(data, ScenarioPrices, ScenarioLen) \ {data} : CalculateSignals(d)
SpecDMAC == InitDMAC /\ [][NextDMAC]_vars

\* Strategies constructed with any ma_type and method, the unknown ones
\* included (the params classes accept any string).
ConfigLen == 2        \* bars in a series given to a strategy of any configuration

AnyKinds == Kinds \cup {UnknownKind}
AnyMethods == Methods \cup {UnknownMethod}
SmallPeriods == 1..MaxSlopePeriod
SmallGroups == {g \in Groups : \A a \in 1..Len(g) : g[a] \in SmallPeriods}

Any_Configs ==
    [variant : {"DMAC"}, ma_type : AnyKinds, fast_period : SmallPeriods, slow_period : SmallPeriods]
    \cup [variant : {"TMAC"}, ma_type : AnyKinds,
          short_period : SmallPeriods, mid_period : SmallPeriods, long_period : SmallPeriods]
    \cup [variant : {"GMMA"}, ma_type : AnyKinds, short_periods : SmallGroups, long_periods : SmallGroups]
    \cup [variant : {"SMAS"}, method : AnyMethods, ma_type : AnyKinds,
          ma_period : SmallPeriods, slope_period : SmallPeriods, threshold : {<<1, 2>>}]

InitAny == Constructed(Any_Configs)
NextAny == \E d \in Revisions(data, ClosePrices, ConfigLen) \ {data} : CalculateSignals(d)
SpecAny == InitAny /\ [][NextAny]_vars

\* One SlopeThreshold strategy object on which calculate_signals and the
\* public calculate_beta are called in any order.
ReuseLen == 3         \* bars in a series given to a reused strategy object

Reuse_Configs == {c \in SMAS_Configs : c.ma_type = "SMA" /\ c.threshold = <<1, 1>>}
CloseSeries(maxLen) == UNION {[1..n -> ClosePrices] : n \in 1..maxLen}

InitReuse == Constructed(Reuse_Configs)
NextReuse ==
    \/ \E d \in Revisions(data, ClosePrices, ReuseLen) \ {data} : CalculateSignals(d)
    \/ \E method \in Methods \cup {UnknownMethod}, d \in CloseSeries(ReuseLen),
          period \in 1..MaxSlopePeriod :
            CalculateBeta(method, Closes(d), period)
SpecReuse == InitReuse /\ [][NextReuse]_vars

(***************************************************************************)
(* Properties of calculate_signals common to the variants.                 *)
(***************************************************************************)
\* The series a call on d would return from the current state.
SignalsOn(d) ==
    LET after == ParamsAfter(cfg, params, d)
    IN  Signals(cfg, after, d)

AgreeUpTo(d1, d2, t) == t <= Len(d1) /\ t <= Len(d2) /\ \A u \in 1..t : d1[u] = d2[u]

\* C4: no-lookahead.  When the next call is given a series that agrees with
\* the last one on every bar up to and including t (and differs after t, by a
\* changed or an added bar), the signal at t is the same, for every t from the
\* first bar on and for every variant.
C4_NoLookahead ==
    [][\A t \in 1..Len(data) : AgreeUpTo(data, data', t) => signals'[t] = signals[t]]_vars

\* An M4 run has produced a signal at a bar t, and changing the last bar
\* changes the signal of the last bar while the signal at t stays as it is.
C4_Witness ==
    /\ cfg.variant = "SMAS" /\ cfg.method = "M4"
    /\ Len(data) >= 2 /\ Len(signals) = Len(data)
    /\ \E t \in 1..(Len(data) - 1), x \in ClosePrices :
          LET d2 == [data EXCEPT ![Len(data)] = x]
          IN  /\ signals[t] # 0
              /\ SignalsOn(d2)[t] = signals[t]
              /\ SignalsOn(d2)[Len(data)] # signals[Len(data)]

\* C5: the returned series has exactly one entry per input bar, at the same
\* positions in the same order, and every entry is -1, 0 or +1.
C5_AlignedTernary ==
    /\ DOMAIN signals = 1..Len(data)
    /\ \A t \in 1..Len(data) : signals[t] \in {-1, 0, 1}

\* A run over the longest series has returned all three values.
C5_Witness ==
    /\ Len(data) = MaxLen
    /\ {signals[t] : t \in 1..Len(signals)} = {-1, 0, 1}

\* A quantity the rule of the variant needs at bar t is not defined: a moving
\* average at t or t-1, or the shifted beta.
NeededAt(c, prm, d, t) ==
    LET close == Closes(d)
        both(ma) == <<ma[t], Shift(ma)[t]>>
    IN  CASE c.variant = "SMAC" -> both(SMAC_ma(c, d))
          [] c.variant = "DMAC" -> both(DMAC_fast(c, d)) \o both(DMAC_slow(c, d))
          [] c.variant = "TMAC" -> both(TMAC_ma(c, d, c.short_period))
                                      \o both(TMAC_ma(c, d, c.mid_period))
                                      \o both(TMAC_ma(c, d, c.long_period))
          [] c.variant = "GMMA" -> both(MovingAverage(c.ma_type, close, c.short_periods[1]))
                                      \o both(MovingAverage(c.ma_type, close, c.long_periods[1]))
          [] c.variant = "SMAS" -> <<prm.beta.values[t]>>
          [] c.variant = "DEMO" ->
                <<Shift(DEMO_beta_series(RollingMean(close, c.ma_period), c.slope_period))[t]>>

UndefinedAt(t) ==
    LET needed == NeededAt(cfg, params, data, t)
    IN  \E a \in 1..Len(needed) : IsNaN(needed[a])

\* C6: at every position where a quantity the rule needs is not yet defined,
\* the returned signal is not 0 (it carries an undefined marker).
C6_UndefinedNeverZero ==
    \A t \in 1..Len(signals) : UndefinedAt(t) => signals[t] # 0

(***************************************************************************)
(* The rule of each crossing variant.                                      *)
(***************************************************************************)
\* The weighted sum 1 * d[t-p+1] + ... + p * d[t] of the p closes ending at t.
RECURSIVE WeightedCloses(_, _, _)
WeightedCloses(d, t, p) ==
    IF p = 0 THEN 0 ELSE p * d[t] + WeightedCloses(d, t - 1, p - 1)

\* Where close_t is against the period-p average at t: the average is the
\* weighted sum over p * (p + 1) / 2, and there is none before bar p.
CloseSide(d, t, p) ==
    IF t < 1 \/ t < p THEN "undefined"
    ELSE LET lhs == d[t] * ((p * (p + 1)) \div 2)
             rhs == WeightedCloses(d, t, p)
         IN  IF lhs > rhs THEN "above" ELSE IF lhs < rhs THEN "below" ELSE "on"

\* C7: SingleMACross emits +1 at t exactly when close_t > MA_t and
\* close_(t-1) <= MA_(t-1), -1 exactly when close_t < MA_t and
\* close_(t-1) >= MA_(t-1), and 0 at every other bar.
C7_SingleCrossRule ==
    cfg.variant = "SMAC" =>
        \A t \in 1..Len(data) :
            LET now == CloseSide(data, t, cfg.period)
                before == CloseSide(data, t - 1, cfg.period)
            IN  signals[t] = IF now = "above" /\ before \in {"below", "on"} THEN 1
                             ELSE IF now = "below" /\ before \in {"above", "on"} THEN -1
                             ELSE 0

\* A run has returned an upward and a downward cross.
C7_Witness ==
    /\ cfg.variant = "SMAC"
    /\ \E t, u \in 1..Len(signals) : signals[t] = 1 /\ signals[u] = -1

\* The two-level scenario: four bars at 10, then four bars at 20.
Scenario == <<10, 10, 10, 10, 20, 20, 20, 20>>

\* C8: DualMACross emits +1 at t exactly when fast_t > slow_t and
\* fast_(t-1) <= slow_(t-1), -1 exactly when fast_t < slow_t and
\* fast_(t-1) >= slow_(t-1), and 0 otherwise; with fast period 2 and slow
\* period 4 over the scenario the output has one +1, at the first bar where
\* the fast average exceeds the slow one, no -1, and 0 elsewhere.
C8_DualCrossRule ==
    cfg.variant = "DMAC" =>
        LET fast == DMAC_fast(cfg, data)
            slow == DMAC_slow(cfg, data)
            first == CHOOSE t \in 1..Len(data) :
                        /\ RGt(fast[t], slow[t])
                        /\ \A u \in 1..(t - 1) : ~RGt(fast[u], slow[u])
        IN  /\ \A t \in 1..Len(data) :
                  signals[t] =
                      IF t > 1 /\ RGt(fast[t], slow[t]) /\ RLe(fast[t - 1], slow[t - 1]) THEN 1
                      ELSE IF t > 1 /\ RLt(fast[t], slow[t]) /\ RGe(fast[t - 1], slow[t - 1]) THEN -1
                      ELSE 0
            /\ (data = Scenario /\ cfg.fast_period = 2 /\ cfg.slow_period = 4) =>
                  /\ signals = <<0, 0, 0, 0, 1, 0, 0, 0>>
                  /\ signals[first] = 1

\* The scenario has been run with fast period 2 and slow period 4.
C8_Witness ==
    /\ cfg.variant = "DMAC" /\ cfg.fast_period = 2 /\ cfg.slow_period = 4
    /\ data = Scenario
    /\ signals = <<0, 0, 0, 0, 1, 0, 0, 0>>

\* x is above y; an average that is not defined is above nothing and has
\* nothing above it.
Above(x, y) == ~IsNaN(x) /\ ~IsNaN(y) /\ RGt(x, y)
\* Both are defined and x is not above y.
KnownNotAbove(x, y) == ~IsNaN(x) /\ ~IsNaN(y) /\ ~RGt(x, y)

\* The three averages of TMAC at bar t, as <<short, mid, long>>.
TripleAt(t) ==
    <<TMAC_ma(cfg, data, cfg.short_period)[t],
      TMAC_ma(cfg, data, cfg.mid_period)[t],
      TMAC_ma(cfg, data, cfg.long_period)[t]>>

Rising(m) == Above(m[1], m[2]) /\ Above(m[2], m[3])
Falling(m) == Above(m[2], m[1]) /\ Above(m[3], m[2])

ShortGroupAt(t) == [a \in 1..Len(cfg.short_periods) |-> GMMA_mas(cfg, data, cfg.short_periods)[a][t]]
LongGroupAt(t) == [b \in 1..Len(cfg.long_periods) |-> GMMA_mas(cfg, data, cfg.long_periods)[b][t]]

\* Every average of xs is above every average of ys.
Separated(xs, ys) == \A a \in 1..Len(xs), b \in 1..Len(ys) : Above(xs[a], ys[b])
\* Some pair is defined and not in that ordering.
KnownOverlap(xs, ys) == \E a \in 1..Len(xs), b \in 1..Len(ys) : KnownNotAbove(xs[a], ys[b])

SeparatedUp(t) == Separated(ShortGroupAt(t), LongGroupAt(t))
SeparatedDown(t) == Separated(LongGroupAt(t), ShortGroupAt(t))

\* The bars t..t+k are a run of upward (downward) separation.
RunUp(t, k) == \A u \in t..(t + k) : SeparatedUp(u)
RunDown(t, k) == \A u \in t..(t + k) : SeparatedDown(u)

\* The signal is v at t and 0 at the k following bars.
OnceAt(t, k, v) == signals[t] = v /\ \A u \in (t + 1)..(t + k) : signals[u] = 0

SlopeMA == SMAS_create_ma(cfg, data, cfg.ma_period)

\* (MA_u - MA_(u-N)) / N on the average ma
M1Of(ma, u) ==
    IF u - cfg.slope_period < 1 THEN NaN
    ELSE RDiv(RSub(ma[u], ma[u - cfg.slope_period]), FromInt(cfg.slope_period))

\* The M1 value divided by MA_(u-1)
PctOf(ma, u) == IF u < 2 THEN NaN ELSE RDiv(M1Of(ma, u), ma[u - 1])
M2Of(ma, u) == RMul(PctOf(ma, u), FromInt(100))

\* The z-score of the M1 value within the last N of them, as its signed square
M3Of(ma, u) == ZScore([v \in 1..Len(ma) |-> M1Of(ma, v)], cfg.slope_period)[u]

\* The beta of the configured method computed through bar u
BetaOf(ma, u) ==
    IF u < 1 THEN NaN
    ELSE CASE cfg.method = "M1" -> M1Of(ma, u)
           [] cfg.method = "M2" -> M2Of(ma, u)
           [] cfg.method = "M3" -> M3Of(ma, u)
           [] cfg.method = "M4" -> PctOf(ma, u)

BetaAt(u) == BetaOf(SlopeMA, u)

\* The configured threshold on the scale of BetaAt
ThetaOf(th) == IF cfg.method = "M3" THEN SignedSquare(th) ELSE th

StaticMethod == cfg.variant = "SMAS" /\ cfg.method \in {"M1", "M2", "M3"}

\* C12 as stated: with M1, M2 or M3 the signal at t is +1 if beta_(t-1) > theta,
\* -1 if beta_(t-1) < -theta, and 0 otherwise, beta being the method's slope
\* estimate of the moving average and theta the configured threshold.
C12_SlopeRule_AsStated ==
    StaticMethod =>
        LET ma == SlopeMA
            theta == ThetaOf(cfg.threshold)
        IN  \A t \in 1..Len(data) :
                signals[t] = IF RGt(BetaOf(ma, t - 1), theta) THEN 1
                             ELSE IF RLt(BetaOf(ma, t - 1), RNeg(theta)) THEN -1
                             ELSE 0

\* C12 amended: with M1, M2 or M3 the signal at t is -1 if beta_(t-1) < -theta,
\* otherwise +1 if beta_(t-1) > theta, and 0 otherwise (both comparisons can
\* hold only under a negative theta, and then the signal is -1).
C12_SlopeRule ==
    StaticMethod =>
        LET ma == SlopeMA
            theta == ThetaOf(cfg.threshold)
        IN  \A t \in 1..Len(data) :
                signals[t] = IF RLt(BetaOf(ma, t - 1), RNeg(theta)) THEN -1
                             ELSE IF RGt(BetaOf(ma, t - 1), theta) THEN 1
                             ELSE 0

\* An M3 run under a positive threshold has returned +1 and -1.
C12_Witness ==
    /\ cfg.variant = "SMAS" /\ cfg.method = "M3"
    /\ RGt(cfg.threshold, FromInt(0))
    /\ \E t, u \in 1..Len(signals) :
          /\ signals[t] = 1 /\ RGt(BetaAt(t - 1), ThetaOf(cfg.threshold))
          /\ signals[u] = -1

\* Q3 - Q1 of the percentage slopes of the bars up to and including each bar
Iqr(ma) ==
    LET pct == [v \in 1..Len(ma) |-> PctOf(ma, v)]
        q1 == ExpandingQuantile(pct, 1, 4)
        q3 == ExpandingQuantile(pct, 3, 4)
    IN  [t \in 1..Len(ma) |-> RSub(q3[t], q1[t])]

IqrAt(t) == Iqr(SlopeMA)[t]

\* What a strategy configured as cfg but for the threshold returns on data
WithThreshold(th) ==
    LET c == [cfg EXCEPT !.threshold = th]
        after == ParamsAfter(c, InitialParams(c), data)
    IN  Signals(c, after, data)

\* C13: with M4 the threshold applied at t is Q3 - Q1 of the percentage-slope
\* series over all bars up to and including t, the signal at t is +1 if the
\* one-period-shifted beta exceeds it, -1 if it is below its negation, else 0,
\* and configurations that differ only in the configured threshold give
\* identical signals.
C13_M4Override ==
    (cfg.variant = "SMAS" /\ cfg.method = "M4") =>
        /\ LET ma == SlopeMA
               iqr == Iqr(ma)
           IN  \A t \in 1..Len(data) :
                  LET b == BetaOf(ma, t - 1)
                  IN  signals[t] = IF RGt(b, iqr[t]) THEN 1
                                   ELSE IF RLt(b, RNeg(iqr[t])) THEN -1
                                   ELSE 0
        /\ \A th \in Thresholds \ {cfg.threshold} : WithThreshold(th) = signals

\* An M4 run configured with threshold 1 has returned +1 at a bar whose
\* shifted beta does not exceed 1, and -1 at another bar.
C13_Witness ==
    /\ cfg.variant = "SMAS" /\ cfg.method = "M4"
    /\ cfg.threshold = FromInt(1)
    /\ \E t, u \in 1..Len(signals) :
          /\ signals[t] = 1 /\ RLe(BetaAt(t - 1), cfg.threshold)
          /\ RGt(IqrAt(t), FromInt(0))
          /\ signals[u] = -1

\* C14: for every slope method the SlopeThreshold signal at bar t does not use
\* bar t's own close: two bar series that are identical except for the close
\* of bar t produce the same signal value at t.
C14_OwnCloseUnused ==
    cfg.variant = "SMAS" =>
        \A t \in 1..Len(data) : \A x \in ClosePrices :
            SignalsOn([data EXCEPT ![t] = x])[t] = signals[t]

(***************************************************************************)
(* The two cross conditions of a cross-based variant.                      *)
(***************************************************************************)
UpCross ==
    CASE cfg.variant = "SMAC" -> SMAC_golden(cfg, data)
      [] cfg.variant = "DMAC" -> DMAC_golden(cfg, data)
      [] cfg.variant = "TMAC" -> TMAC_golden(cfg, data)
      [] cfg.variant = "GMMA" -> GMMA_up(cfg, data)

DownCross ==
    CASE cfg.variant = "SMAC" -> SMAC_death(cfg, data)
      [] cfg.variant = "DMAC" -> DMAC_death(cfg, data)
      [] cfg.variant = "TMAC" -> TMAC_death(cfg, data)
      [] cfg.variant = "GMMA" -> GMMA_down(cfg, data)

\* C15: for SMAC, DMAC, TMAC and GMMA, every input series and every bar t, the
\* upward-cross and the downward-cross condition never both hold at t, so the
\* value written at t is the same whichever of +1 and -1 is assigned first.
C15_MutuallyExclusive ==
    cfg.variant \in {"SMAC", "DMAC", "TMAC", "GMMA"} =>
        LET up == UpCross
            down == DownCross
        IN  \A t \in 1..Len(data) :
                /\ ~(up[t] /\ down[t])
                /\ signals[t] = (IF up[t] THEN 1 ELSE IF down[t] THEN -1 ELSE 0)
                /\ signals[t] = (IF down[t] THEN -1 ELSE IF up[t] THEN 1 ELSE 0)

\* A DMAC run has an upward cross at a bar whose predecessor had the two
\* averages equal (both previous-bar tests hold there), and a downward cross
\* at another bar.
C15_Witness ==
    /\ cfg.variant = "DMAC"
    /\ \E t \in 2..Len(data) :
          /\ UpCross[t] /\ signals[t] = 1
          /\ DMAC_fast(cfg, data)[t - 1] = DMAC_slow(cfg, data)[t - 1]
    /\ \E u \in 1..Len(data) : DownCross[u] /\ signals[u] = -1

(***************************************************************************)
(* The session window of the aggregator.                                   *)
(***************************************************************************)
\* 09:00:00 <= time of day <= 13:30:00
InWindow(r) == SessionOpen <= r.tod /\ r.tod <= SessionClose

WidthOf(k) == k.timeframe * UnitSeconds(k.unit)

\* Row r lies in the span of bar b (the closing second counts to the span
\* that ends with it) and b's range holds its price.
ContributesTo(r, b, k) ==
    /\ b.datetime <= Stamp(r) /\ Stamp(r) <= b.datetime + WidthOf(k)
    /\ b.low <= r.price /\ r.price <= b.high

BarVolumes(bars) == SumOver(1..Len(bars), [n \in 1..Len(bars) |-> bars[n].volume])

\* C16: a tick contributes to a bar if and only if its time of day lies in
\* 09:00:00..13:30:00, both ends included: every tick of the window (those at
\* exactly 09:00:00 and 13:30:00 too) lies in a bar, every bar holds a tick of
\* the window, the volumes of the bars add up to those of the window's ticks,
\* and the bars are the ones the ticks of the window alone give.
C16_SessionWindow ==
    \A k \in fresh :
        LET rows == TickRows(k.stock)
            bars == files[k].bars
            kept == {i \in 1..Len(rows) : InWindow(rows[i])}
        IN  /\ \A i \in kept : \E n \in 1..Len(bars) : ContributesTo(rows[i], bars[n], k)
            /\ \A n \in 1..Len(bars) : \E i \in kept : ContributesTo(rows[i], bars[n], k)
            /\ BarVolumes(bars) = SumOver(kept, [i \in kept |-> rows[i].volume])
            /\ \E p \in Perms(Len(tickFiles[k.stock])) :
                  bars = KLine(SelectSeq(Concat(tickFiles[k.stock], p), InWindow), k)

\* Minute bars have been computed from a tick at exactly 13:30:00 and a tick
\* one second later: one bar, with the volume of the first.
C16_Witness ==
    \E k \in fresh :
        /\ k.unit = "min"
        /\ \E i, j \in 1..Len(TickRows(k.stock)) :
              /\ TickRows(k.stock)[i].tod = SessionClose
              /\ TickRows(k.stock)[j].tod = SessionClose + 1
              /\ Len(files[k].bars) = 1
              /\ files[k].bars[1].volume = TickRows(k.stock)[i].volume

\* The time a tick is bucketed at: one second earlier for a tick at exactly
\* session close, its own time stamp for every other tick.
MovedTime(r) == IF r.tod = SessionClose THEN Stamp(r) - 1 ELSE Stamp(r)

\* The label of the bucket of row i: buckets of the key's width counted from
\* the midnight of the first day with a tick in the window.
LabelAt(rows, i, k) ==
    LET kept == {j \in 1..Len(rows) : InWindow(rows[j])}
        origin == Min({rows[j].day : j \in kept}) * DaySeconds
    IN  origin + ((MovedTime(rows[i]) - origin) \div WidthOf(k)) * WidthOf(k)

\* C17: a tick stamped exactly 13:30:00 is moved back by one second before
\* bucketing and is aggregated into the bar that holds its day's 13:29:59
\* ticks, every other tick keeps its timestamp, and no bar is labelled at or
\* beyond session close: each bar's volume is the sum over the ticks whose
\* bucketing time falls into it, and every tick of the window has its bar.
C17_CloseTickMovedBack ==
    \A k \in fresh :
        LET rows == TickRows(k.stock)
            bars == files[k].bars
            kept == {i \in 1..Len(rows) : InWindow(rows[i])}
        IN  /\ \A i \in kept : \E n \in 1..Len(bars) : bars[n].datetime = LabelAt(rows, i, k)
            /\ \A n \in 1..Len(bars) :
                  LET g == {i \in kept : LabelAt(rows, i, k) = bars[n].datetime}
                  IN  /\ g # {}
                      /\ bars[n].volume = SumOver(g, [i \in g |-> rows[i].volume])
                      /\ bars[n].high = Max({rows[i].price : i \in g})
                      /\ bars[n].low = Min({rows[i].price : i \in g})
            /\ \A n \in 1..Len(bars) : bars[n].datetime % DaySeconds < SessionClose

\* Minute bars have been computed from a tick at 13:30:00 and a tick at
\* 13:29:59 of the same day: one bar, labelled 13:29:00, with both volumes.
C17_Witness ==
    \E k \in fresh :
        /\ k.unit = "min"
        /\ \E i, j \in 1..Len(TickRows(k.stock)) :
              LET rows == TickRows(k.stock)
              IN  /\ rows[i].tod = SessionClose /\ rows[j].tod = SessionClose - 1
                  /\ rows[i].day = rows[j].day
                  /\ Len(files[k].bars) = 1
                  /\ files[k].bars[1].datetime % DaySeconds = SessionClose - WidthOf(k)
                  /\ files[k].bars[1].volume = rows[i].volume + rows[j].volume

TimeOfDay(t) == t % DaySeconds

\* C18: for every interval width and unit and every trading day, get_k_line
\* emits no bar whose label has a time of day strictly after session close
\* (a final bucket that would be is relabelled to session close), and the bar
\* timestamps are strictly increasing.
C18_NoLabelAfterClose ==
    \A k \in fresh :
        LET bars == files[k].bars
        IN  /\ \A n \in 1..Len(bars) : TimeOfDay(bars[n].datetime) <= SessionClose
            /\ \A n \in 1..(Len(bars) - 1) : bars[n].datetime < bars[n + 1].datetime

\* The row orders of one partition, and the merged rows under every listing
\* order of the partitions and every row order inside each.
RowOrders(rs) == {[i \in 1..Len(rs) |-> rs[q[i]]] : q \in Perms(Len(rs))}

Reorderings(parts) ==
    LET all == UNION {RowOrders(parts[i]) : i \in 1..Len(parts)}
        each == {ps \in [1..Len(parts) -> all] : \A i \in 1..Len(parts) : ps[i] \in RowOrders(parts[i])}
    IN  {Concat(ps, p) : ps \in each, p \in Perms(Len(parts))}

\* C19: the bar series get_k_line produces is the same for every order in
\* which the partition files are listed and concatenated and for every row
\* order inside a partition.
C19_OrderIndependent ==
    \A k \in fresh :
        \A df \in Reorderings(tickFiles[k.stock]) : KLine(df, k) = files[k].bars

\* C20: every emitted bar has high >= max(open, close), low <= min(open, close)
\* and low <= high, and its volume is the sum of the volumes of the ticks
\* aggregated into it, for every tick input in any row order.
C20_BarInvariants ==
    \A k \in DOMAIN files :
        files[k].exists =>
            LET rows == TickRows(k.stock)
                bars == files[k].bars
                kept == {i \in 1..Len(rows) : InWindow(rows[i])}
            IN  \A n \in 1..Len(bars) :
                    LET b == bars[n]
                        g == {i \in kept : LabelAt(rows, i, k) = b.datetime}
                    IN  /\ b.high >= Max({b.open, b.close})
                        /\ b.low <= Min({b.open, b.close})
                        /\ b.low <= b.high
                        /\ b.volume = SumOver(g, [i \in g |-> rows[i].volume])

\* A bar of two ticks has been written that opens at its high and closes at
\* its low, below the open.
C20_Witness ==
    \E k \in DOMAIN files :
        /\ files[k].exists
        /\ \E n \in 1..Len(files[k].bars) :
              LET b == files[k].bars[n]
              IN  /\ b.open = b.high /\ b.close = b.low /\ b.low < b.high
                  /\ b.volume = 3

(***************************************************************************)
(* C30: the same non-zero signal on two consecutive bars                   *)
(***************************************************************************)
CrossVariant == cfg.variant \in {"SMAC", "DMAC", "TMAC", "GMMA"}

\* C30: for SMAC, DMAC, TMAC and GMMA and every input series, a +1 at bar t
\* is never followed by +1 at bar t+1 and a -1 at bar t is never followed by
\* -1 at bar t+1.
C30_NoRepeatedSignal ==
    CrossVariant =>
        \A t \in 1..(Len(signals) - 1) :
            signals[t] # 0 => signals[t + 1] # signals[t]

\* A +1 with a successor bar on which the upward level test still holds (the
\* next value is 0), and a -1 directly followed by the opposite signal.
C30_Witness ==
    /\ cfg.variant = "DMAC"
    /\ \E t \in 1..(Len(signals) - 1) :
          /\ signals[t] = 1
          /\ signals[t + 1] = 0
          /\ DMAC_golden_Level(cfg, data)[t + 1]
    /\ \E t \in 1..(Len(signals) - 1) : signals[t] = -1 /\ signals[t + 1] = 1

(***************************************************************************)
(* C28: the pairwise scan of GMMA and a min/max comparison                 *)
(***************************************************************************)
\* The minimum and the maximum of a group's values at one bar.  Over
\* undefined values there are two readings: the undefined values are skipped
\* (NaN only if every value is undefined), or any undefined value makes the
\* result undefined.
Defined(xs) == {a \in 1..Len(xs) : ~IsNaN(xs[a])}

GroupMin(xs, skip) ==
    IF Defined(xs) = {} \/ (~skip /\ Defined(xs) # 1..Len(xs)) THEN NaN
    ELSE xs[CHOOSE a \in Defined(xs) : \A b \in Defined(xs) : RLe(xs[a], xs[b])]

GroupMax(xs, skip) ==
    IF Defined(xs) = {} \/ (~skip /\ Defined(xs) # 1..Len(xs)) THEN NaN
    ELSE xs[CHOOSE a \in Defined(xs) : \A b \in Defined(xs) : RGe(xs[a], xs[b])]

\* The tests of the scan (every x above every y; some x not above some y)
\* and their min/max forms.
PairAllGt(xs, ys) == \A a \in 1..Len(xs), b \in 1..Len(ys) : RGt(xs[a], ys[b])
PairAnyLe(xs, ys) == \E a \in 1..Len(xs), b \in 1..Len(ys) : RLe(xs[a], ys[b])
MinMaxAllGt(xs, ys, skip) == RGt(GroupMin(xs, skip), GroupMax(ys, skip))
MinMaxAnyLe(xs, ys, skip) == RLe(GroupMin(xs, skip), GroupMax(ys, skip))

\* The four equivalences at bar t: the two of the +1 rule and the mirrored
\* two of the -1 rule.
EquivAt(t, skip) ==
    LET s == ShortGroupAt(t)
        l == LongGroupAt(t)
    IN  /\ PairAllGt(s, l) <=> MinMaxAllGt(s, l, skip)
        /\ PairAnyLe(s, l) <=> MinMaxAnyLe(s, l, skip)
        /\ PairAllGt(l, s) <=> MinMaxAllGt(l, s, skip)
        /\ PairAnyLe(l, s) <=> MinMaxAnyLe(l, s, skip)

\* The signal of the min/max formulation at bar t >= 2.
MinMaxSignal(t, skip) ==
    LET s == ShortGroupAt(t)
        l == LongGroupAt(t)
        ps == ShortGroupAt(t - 1)
        pl == LongGroupAt(t - 1)
    IN  IF MinMaxAllGt(s, l, skip) /\ MinMaxAnyLe(ps, pl, skip) THEN 1
        ELSE IF MinMaxAllGt(l, s, skip) /\ MinMaxAnyLe(pl, ps, skip) THEN -1
        ELSE 0

AllDefined(t) ==
    /\ Defined(ShortGroupAt(t)) = 1..Len(cfg.short_periods)
    /\ Defined(LongGroupAt(t)) = 1..Len(cfg.long_periods)

C23_ParamsUnchanged ==
    [][cfg' = cfg /\ params' = params]_vars

(***************************************************************************)
(* C26: the moving averages and the selection of their kind                *)
(***************************************************************************)
\* The three definitions, written out from the closes x and the period p.
SimpleAt(x, p, t) ==
    IF t < p THEN NaN
    ELSE RDiv(RSum(x, t - p + 1, t), FromInt(p))

RECURSIVE ExponentialAt(_, _, _)
ExponentialAt(x, p, t) ==
    IF t = 1 THEN x[1]
    ELSE RAdd(RMul(Rat(2, p + 1), x[t]),
              RMul(RSub(FromInt(1), Rat(2, p + 1)), ExponentialAt(x, p, t - 1)))

RECURSIVE WeightedSum(_, _, _, _)
WeightedSum(x, p, t, w) ==      \* weights w..p on x[t-p+w] .. x[t]
    IF w > p THEN FromInt(0)
    ELSE RAdd(RMul(FromInt(w), x[t - p + w]), WeightedSum(x, p, t, w + 1))

WeightedAt(x, p, t) ==
    IF t < p THEN NaN
    ELSE RDiv(WeightedSum(x, p, t, 1), Rat(p * (p + 1), 2))

KindDefinition(kind, x, p) ==
    [t \in 1..Len(x) |->
        CASE kind = "SMA" -> SimpleAt(x, p, t)
          [] kind = "EMA" -> ExponentialAt(x, p, t)
          [] kind = "WMA" -> WeightedAt(x, p, t)]

Average(p, ma) == [period |-> p, ma |-> ma]

\* The moving averages calculate_signals computes for the last series.
UsedAverages ==
    CASE cfg.variant = "SMAC" -> {Average(cfg.period, SMAC_ma(cfg, data))}
      [] cfg.variant = "DMAC" -> {Average(cfg.fast_period, DMAC_fast(cfg, data)),
                                  Average(cfg.slow_period, DMAC_slow(cfg, data))}
      [] cfg.variant = "TMAC" -> {Average(p, TMAC_ma(cfg, data, p)) :
                                     p \in {cfg.short_period, cfg.mid_period, cfg.long_period}}
      [] cfg.variant = "GMMA" ->
             {Average(cfg.short_periods[a], GMMA_mas(cfg, data, cfg.short_periods)[a]) :
                 a \in 1..Len(cfg.short_periods)}
             \cup {Average(cfg.long_periods[b], GMMA_mas(cfg, data, cfg.long_periods)[b]) :
                      b \in 1..Len(cfg.long_periods)}
      [] cfg.variant = "SMAS" -> {Average(cfg.ma_period, params.ma.values)}

\* The kinds that can be selected for the strategy: the ma_type it was given,
\* and for SMAC, whose params have no ma_type, any of the three.
SelectedKinds == IF cfg.variant = "SMAC" THEN Kinds ELSE {cfg.ma_type}

\* C26: for each selected kind and period p, the moving average a variant
\* uses is as long as the close series and follows the kind's definition
\* (simple, exponential or weighted-linear), for each of the five variants.
C26_KindHonoured ==
    (cfg.variant \in {"SMAC", "DMAC", "TMAC", "GMMA", "SMAS"} /\ data # <<>>) =>
        \A u \in UsedAverages :
            /\ Len(u.ma) = Len(data)
            /\ \A kind \in SelectedKinds : u.ma = KindDefinition(kind, Closes(data), u.period)

(***************************************************************************)
(* C24: state kept across calls                                            *)
(***************************************************************************)
\* What a freshly constructed strategy with the same construction-time
\* configuration returns for d.
FreshSignals(d) == Signals(cfg, ParamsAfter(cfg, InitialParams(cfg), d), d)

\* C24: no variant retains state across calls: after any sequence of earlier
\* calls on the strategy object (calculate_signals on other series, the public
\* calculate_beta with any method), calculate_signals(data) returns the series
\* a freshly constructed strategy with the same configuration returns.  (A
\* step that changes data is a calculate_signals call.)
C24_NoStateAcrossCalls ==
    [][data' # data => (raised' = NoError /\ signals' = FreshSignals(data'))]_vars

(***************************************************************************)
(* C22: unknown kinds and methods                                          *)
(***************************************************************************)
\* The errors that say the configuration is not supported.
UnsupportedConfig == {UnsupportedKind, UnsupportedMethod}

Unsupported ==
    /\ cfg.variant \in {"DMAC", "TMAC", "GMMA", "SMAS"}
    /\ \/ cfg.ma_type \notin Kinds
       \/ cfg.variant = "SMAS" /\ cfg.method \notin Methods

\* C22: for DMAC, TMAC, GMMA and SMAS a kind outside {SMA, EMA, WMA} makes
\* calculate_signals fail with the UnsupportedConfig error and return no
\* series; for SMAS a method outside {M1, M2, M3, M4} fails with the same
\* error.
C22_UnsupportedConfigRaised ==
    (data # <<>> /\ Unsupported) => (raised \in UnsupportedConfig /\ signals = <<>>)

(***************************************************************************)
(* C21: failures of get_k_line on a cache miss                             *)
(***************************************************************************)
\* The rows the last call read: the tick files do not change in SpecFaults.
FieldAbsent(rows) == \E i \in 1..Len(rows) : Fault(rows[i]) \in ColumnNames
TimeMalformed(rows) == \E i \in 1..Len(rows) : Fault(rows[i]) = Malformed

\* The exceptions that stand for DataNotFound, SchemaError and ParseError.
ExpectedErrors(stock) ==
    IF tickFiles[stock] = <<>> THEN {"FileNotFoundError"}
    ELSE (IF FieldAbsent(TickRows(stock)) THEN {"KeyError"} ELSE {})
         \cup (IF TimeMalformed(TickRows(stock)) THEN {"ValueError"} ELSE {})

\* C21: a get_k_line call that misses the cache raises when the instrument
\* has no tick partition (DataNotFound), when a required field (date, Time,
\* deal_price, volume) is absent from the tick data (SchemaError) or when a
\* timestamp text is malformed (ParseError), and then no artifact is written
\* for the key, so that a later call aggregates again.  (Calls whose write
\* fails are left aside.)
C21_FailFast ==
    (lastCall.outcome \notin {"none", "hit", "OSError"} /\ ExpectedErrors(lastCall.key.stock) # {}) =>
        /\ lastCall.outcome \in ExpectedErrors(lastCall.key.stock)
        /\ lastCall.ret = NoPath
        /\ ~files[lastCall.key].exists

(***************************************************************************)
(* The run of main.py: the parent submits one future per (MA type,         *)
(* setting) to a process pool; each future runs main(ma_type, setting),    *)
(* which walks its units in the order of the nested loops and then         *)
(* post-processes the summary workbook; the parent collects the futures in *)
(* submission order and the pool is shut down when the with block is left. *)
(***************************************************************************)
NumSettings == 2      \* futures submitted: the enabled (MA type, setting) pairs
NumUnits == 2         \* units of work in the task list of one setting

Settings == 1..NumSettings
TaskList == 1..NumUnits
\* MAX_WORKERS is the number of cores of the machine.
Cores == 1..NumSettings

Ended == {"done", "raised"}

Running(p) == {s \in Settings : p.future[s] = "running"}
Pending(p) == {s \in Settings : p.future[s] = "pending"}

InitPool ==
    /\ AggIdle
    /\ cfg = NoConfig
    /\ params = NoConfig
    /\ data = <<>>
    /\ signals = <<>>
    /\ raised = NoError
    /\ engine = NoRun
    /\ inflight = NoRun
    /\ \E n \in Cores :
        pool = [state    |-> "submit",
                next     |-> 1,
                workers  |-> n,
                future   |-> [s \in Settings |-> "unsubmitted"],
                pos      |-> [s \in Settings |-> 1],
                attempts |-> [s \in Settings |-> [u \in TaskList |-> 0]],
                caught   |-> [s \in Settings |-> {}],
                error    |-> FALSE]

poolOnly == <<tickFiles, files, lastCall, completed, fresh, sigVars, engine, inflight>>

\* executor.submit(main, ma_type, setting), one future per pass of the loops.
executor_submit ==
    /\ pool.state = "submit"
    /\ pool' = [pool EXCEPT !.future[pool.next] = "pending",
                            !.next = IF pool.next = NumSettings THEN 1 ELSE pool.next + 1,
                            !.state = IF pool.next = NumSettings THEN "collect" ELSE "submit"]
    /\ UNCHANGED poolOnly

\* A free worker process takes the oldest queued call.
WorkerStart(s) ==
    /\ pool.state # "none"
    /\ s \in Pending(pool)
    /\ \A o \in Pending(pool) : s <= o
    /\ Cardinality(Running(pool)) < pool.workers
    /\ pool' = [pool EXCEPT !.future[s] = "running"]
    /\ UNCHANGED poolOnly

\* A call of process_single_backtest whose exception would leave it and end
\* the future.
process_single_backtest_Uncaught(s, ok) ==
    /\ pool.state # "none"
    /\ pool.future[s] = "running"
    /\ pool.pos[s] <= NumUnits
    /\ pool' = [pool EXCEPT !.attempts[s][pool.pos[s]] = @ + 1,
                            !.future[s] = IF ok THEN @ ELSE "raised",
                            !.pos[s] = @ + 1]
    /\ UNCHANGED poolOnly

\* One call of process_single_backtest from the loops of main: the whole body
\* is inside try / except Exception, so the call returns in either case and
\* the loop goes on to the next unit.
process_single_backtest(s, ok) ==
    /\ pool.state # "none"
    /\ pool.future[s] = "running"
    /\ pool.pos[s] <= NumUnits
    /\ pool' = [pool EXCEPT !.attempts[s][pool.pos[s]] = @ + 1,
                            !.caught[s] = IF ok THEN @ ELSE @ \cup {pool.pos[s]},
                            !.pos[s] = @ + 1]
    /\ UNCHANGED poolOnly

\* The end of main: process_excel_file is outside any try, so its exception
\* ends the future.
process_excel_file(s, ok) ==
    /\ pool.state # "none"
    /\ pool.future[s] = "running"
    /\ pool.pos[s] = NumUnits + 1
    /\ pool' = [pool EXCEPT !.future[s] = IF ok THEN "done" ELSE "raised"]
    /\ UNCHANGED poolOnly

\* future.result() in submission order: it blocks until the future ended and
\* re-raises its exception, which leaves the loop and the with block.
future_result ==
    /\ pool.state = "collect"
    /\ pool.future[pool.next] \in Ended
    /\ pool' = IF pool.future[pool.next] = "raised"
               THEN [pool EXCEPT !.state = "shutdown", !.error = TRUE]
               ELSE IF pool.next = NumSettings
               THEN [pool EXCEPT !.state = "shutdown"]
               ELSE [pool EXCEPT !.next = @ + 1]
    /\ UNCHANGED poolOnly

\* Leaving the with block: shutdown(wait=True) returns when every submitted
\* future has ended; then the run prints its duration or logs the error.
executor_exit ==
    /\ pool.state = "shutdown"
    /\ \A s \in Settings : pool.future[s] \in Ended
    /\ pool' = [pool EXCEPT !.state = "finished"]
    /\ UNCHANGED poolOnly

NextPool ==
    \/ executor_submit
    \/ \E s \in Settings : WorkerStart(s)
    \/ \E s \in Settings, ok \in BOOLEAN : process_single_backtest(s, ok)
    \/ \E s \in Settings, ok \in BOOLEAN : process_excel_file(s, ok)
    \/ future_result
    \/ executor_exit

\* Every unit and every post-processing step returns or raises, and the
\* operating system keeps scheduling the parent and the workers.
SpecPool == InitPool /\ [][NextPool]_vars /\ WF_vars(NextPool)

(***************************************************************************)
(* Claims about the task runner                                            *)
(***************************************************************************)
Attempts(s, u) == pool.attempts[s][u]

\* C25: every unit of the task list is attempted exactly once and the run
\* finishes.  No unit is ever attempted a second time, an exception of a unit
\* is recorded at that unit and the worker goes on, and the run reaches its
\* end with every unit of every worker attempted once, whatever the units and
\* the post-processing of any worker did.
C25_EachUnitOnce ==
    /\ [](\A s \in Settings, u \in TaskList : Attempts(s, u) <= 1)
    /\ [](\A s \in Settings : \A u \in pool.caught[s] :
            Attempts(s, u) = 1 /\ pool.pos[s] > u /\ pool.future[s] # "unsubmitted")
    /\ <>[](pool.state = "finished" /\ \A s \in Settings, u \in TaskList : Attempts(s, u) = 1)

\* The run has finished after the first unit of the first worker raised, the
\* post-processing of that worker raised as well, and the later unit and the
\* other worker's units were still attempted.
C25_Witness ==
    /\ pool.state = "finished"
    /\ pool.error
    /\ 1 \in pool.caught[1]
    /\ pool.future[1] = "raised"
    /\ \A s \in Settings, u \in TaskList : Attempts(s, u) = 1

(***************************************************************************)
(* DataLoader and BacktestEngine: the K-line file at the loader's path is  *)
(* read, indexed by time and sorted; the frame the loader returned is      *)
(* given to the engine, and run works on the engine's data.                *)
(***************************************************************************)
MaxRows == 2          \* rows of a K-line file
MaxStamp == 2         \* distinct datetime values in a K-line file

RequiredColumns == {"datetime", "open", "high", "low", "close", "volume"}
Stamps == 1..MaxStamp
NoFrame == [kind |-> "None"]

\* What can be at the loader's path: nothing, a file of another format, or a
\* table with a header and rows, of which only the datetime cells matter here.
KLineFiles ==
    [exists  : BOOLEAN,
     suffix  : {".csv", ".txt"},
     columns : {RequiredColumns} \cup {RequiredColumns \ {c} : c \in {"datetime", "close", "volume"}},
     stamps  : UNION {[1..n -> Stamps] : n \in 0..MaxRows}]

\* pd.read_csv: the columns of the header under a RangeIndex.
read_csv(f) == [kind |-> "range", columns |-> f.columns, index |-> [i \in 1..Len(f.stamps) |-> i]]

RECURSIVE sort_index(_)
\* DataFrame.sort_index: the labels in non-decreasing order, every row kept.
sort_index(idx) ==
    IF Len(idx) <= 1 THEN idx
    ELSE LET least == CHOOSE i \in 1..Len(idx) :
                        /\ \A j \in 1..Len(idx) : idx[i] <= idx[j]
                        /\ \A j \in 1..(i - 1) : idx[j] # idx[i]
             rest == [j \in 1..(Len(idx) - 1) |-> IF j < least THEN idx[j] ELSE idx[j + 1]]
         IN  <<idx[least]>> \o sort_index(rest)

\* load_data: the exception it raises, or "none".
LoadError(f) ==
    IF ~f.exists THEN "FileNotFoundError"
    ELSE IF f.suffix # ".csv" THEN "ValueError: unsupported format"
    ELSE IF RequiredColumns \ f.columns # {} THEN "ValueError: missing columns"
    ELSE "none"

\* self.data of the loader after load_data: assigned as soon as the file is
\* read, before the columns are checked.
LoadedFrame(f, before) ==
    IF ~f.exists \/ f.suffix # ".csv" THEN before
    ELSE IF RequiredColumns \ f.columns # {} THEN read_csv(f)
    ELSE [kind |-> "datetime", columns |-> f.columns \ {"datetime"}, index |-> sort_index(f.stamps)]

InitEngine ==
    /\ AggIdle
    /\ cfg = NoConfig
    /\ params = NoConfig
    /\ data = <<>>
    /\ signals = <<>>
    /\ raised = NoError
    /\ pool = NoRun
    /\ inflight = NoRun
    /\ \E f \in KLineFiles :
        engine = [state    |-> "constructed",
                  file     |-> f,
                  loaded   |-> NoFrame,     \* DataLoader.data
                  returned |-> NoFrame,     \* the frame the loader's last call returned
                  data     |-> NoFrame,     \* BacktestEngine.data
                  ran      |-> NoFrame,     \* the series the last run worked on
                  error    |-> "none"]

engineOnly == <<tickFiles, files, lastCall, completed, fresh, sigVars, pool, inflight>>

\* DataLoader.load_data().
load_data ==
    /\ engine.state = "constructed"
    /\ LET err == LoadError(engine.file)
           df == LoadedFrame(engine.file, engine.loaded)
       IN  engine' = [engine EXCEPT !.loaded = df,
                                    !.returned = IF err = "none" THEN df ELSE NoFrame,
                                    !.error = err]
    /\ UNCHANGED engineOnly

\* DataLoader.preprocess_data(): loads first if nothing is loaded, fills the
\* gaps and adds the returns column computed from close.
preprocess_data ==
    /\ engine.state = "constructed"
    /\ LET first == engine.loaded = NoFrame
           err == IF first THEN LoadError(engine.file) ELSE "none"
           df == IF first THEN LoadedFrame(engine.file, engine.loaded) ELSE engine.loaded
       IN  IF err # "none"
           THEN engine' = [engine EXCEPT !.loaded = df, !.returned = NoFrame, !.error = err]
           ELSE IF "close" \notin df.columns
           THEN engine' = [engine EXCEPT !.loaded = df, !.returned = NoFrame,
                                         !.error = "KeyError: close"]
           ELSE LET out == [df EXCEPT !.columns = @ \cup {"returns"}]
                IN  engine' = [engine EXCEPT !.loaded = out, !.returned = out, !.error = "none"]
    /\ UNCHANGED engineOnly

\* The frames a caller hands to set_data: the one the loader returned, or
\* that frame with the close column dropped.
Handed(e) ==
    IF e.returned = NoFrame THEN {}
    ELSE {e.returned, [e.returned EXCEPT !.columns = @ \ {"close"}]}

\* BacktestEngine.set_data(frame).
set_data(frame) ==
    /\ engine.state = "constructed"
    /\ IF "close" \notin frame.columns
       THEN engine' = [engine EXCEPT !.error = "ValueError: no close column"]
       ELSE engine' = [engine EXCEPT !.data = frame, !.error = "none"]
    /\ UNCHANGED engineOnly

\* BacktestEngine.run(signals, freq).
run ==
    /\ engine.state = "constructed"
    /\ IF engine.data = NoFrame
       THEN engine' = [engine EXCEPT !.error = "ValueError: no data set"]
       ELSE engine' = [engine EXCEPT !.ran = engine.data, !.error = "none"]
    /\ UNCHANGED engineOnly

NextEngine ==
    \/ load_data
    \/ preprocess_data
    \/ \E frame \in Handed(engine) : set_data(frame)
    \/ run
SpecEngine == InitEngine /\ [][NextEngine]_vars

(***************************************************************************)
(* Claims about the series given to the backtest engine                    *)
(***************************************************************************)
StrictlyIncreasing(idx) == \A i \in 1..(Len(idx) - 1) : idx[i] < idx[i + 1]

\* C27: the series run works on has a time index that increases strictly
\* from row to row (sorted, no timestamp twice) and a close column.
C27_RunSeriesOrdered ==
    engine.state = "constructed" /\ engine.ran # NoFrame =>
        /\ engine.ran.kind = "datetime"
        /\ StrictlyIncreasing(engine.ran.index)
        /\ "close" \in engine.ran.columns

(***************************************************************************)
(* get_k_line called by several worker processes for one key at the same   *)
(* time.  The steps of a call that touch the file system are separate:     *)
(* the existence check, the reading of the tick directory, the opening of  *)
(* the output file by to_csv (which creates or truncates it), the writing  *)
(* of the rows, and the return.                                            *)
(***************************************************************************)
NumWorkers == 2       \* worker processes calling get_k_line for the same key
RaceTicks == 1        \* tick rows in the directory of the shared instrument

Workers == 1..NumWorkers
SharedKeys == {k \in Keys : k.stock = TickStock}

NoCall == [pc |-> "start", bars |-> <<>>, ret |-> NoPath, complete |-> FALSE]

InitRace ==
    /\ \E dir \in TickDirs(RaceTicks) : tickFiles = [s \in Stocks |-> IF s = TickStock THEN dir ELSE <<>>]
    /\ files = [k \in Keys |-> NoFile]
    /\ lastCall = CallRecord(NoKey, "none", NoPath, FALSE)
    /\ completed = {}
    /\ fresh = {}
    /\ cfg = NoConfig
    /\ params = NoConfig
    /\ data = <<>>
    /\ signals = <<>>
    /\ raised = NoError
    /\ pool = NoRun
    /\ engine = NoRun
    /\ \E k \in SharedKeys, p \in Perms(Len(tickFiles[TickStock])) :
        inflight = [state |-> "calls",
                    key   |-> k,
                    order |-> p,            \* the order in which os.listdir lists the directory
                    call  |-> [w \in Workers |-> NoCall]]

raceOnly == <<tickFiles, lastCall, completed, fresh, sigVars, pool, engine>>

At(w, pc) == inflight.state = "calls" /\ inflight.call[w].pc = pc

\* if os.path.exists(output_path): return output_path
exists_check(w) ==
    /\ At(w, "start")
    /\ inflight' =
         IF files[inflight.key].exists
         THEN [inflight EXCEPT !.call[w] = [pc |-> "returned", bars |-> <<>>,
                                            ret |-> OutputPath(inflight.key),
                                            complete |-> files[inflight.key].complete]]
         ELSE [inflight EXCEPT !.call[w].pc = "missed"]
    /\ UNCHANGED <<files, raceOnly>>

\* The tick directory is listed, read, concatenated and resampled.
read_ticks(w) ==
    /\ At(w, "missed")
    /\ LET parts == tickFiles[inflight.key.stock]
           df == Concat(parts, inflight.order)
       IN  inflight' =
             IF parts = <<>> \/ FrameError(df) # "none"
             THEN [inflight EXCEPT !.call[w].pc = "raised"]
             ELSE [inflight EXCEPT !.call[w].pc = "computed",
                                   !.call[w].bars = KLine(df, inflight.key)]
    /\ UNCHANGED <<files, raceOnly>>

\* to_csv opens output_path for writing: the file exists and is empty.
to_csv_open(w) ==
    /\ At(w, "computed")
    /\ files' = [files EXCEPT ![inflight.key] = [exists |-> TRUE, bars |-> <<>>, complete |-> FALSE]]
    /\ inflight' = [inflight EXCEPT !.call[w].pc = "opened"]
    /\ UNCHANGED raceOnly

\* to_csv writes the rows from the start of the file and closes it.
to_csv_write(w) ==
    /\ At(w, "opened")
    /\ files' = [files EXCEPT ![inflight.key] = [exists |-> TRUE, bars |-> inflight.call[w].bars,
                                                 complete |-> TRUE]]
    /\ inflight' = [inflight EXCEPT !.call[w].pc = "written"]
    /\ UNCHANGED raceOnly

\* return output_path
return_path(w) ==
    /\ At(w, "written")
    /\ inflight' = [inflight EXCEPT !.call[w].pc = "returned",
                                    !.call[w].ret = OutputPath(inflight.key),
                                    !.call[w].complete = files[inflight.key].complete]
    /\ UNCHANGED <<files, raceOnly>>

NextRace ==
    \E w \in Workers :
        \/ exists_check(w)
        \/ read_ticks(w)
        \/ to_csv_open(w)
        \/ to_csv_write(w)
        \/ return_path(w)
SpecRace == InitRace /\ [][NextRace]_vars

(***************************************************************************)
(* Claims about concurrent calls of get_k_line                             *)
(***************************************************************************)
CallsEnded == \A w \in Workers : inflight.call[w].pc \in {"returned", "raised"}

\* C29: under every interleaving of the workers' steps, a call that returned
\* the path returned it when the artifact at the path was completely written,
\* and once every call has ended with some call having returned, the artifact
\* is the complete bar series of the key.
C29_NoEarlyReturn ==
    inflight.state = "calls" =>
        /\ \A w \in Workers : inflight.call[w].pc = "returned" => inflight.call[w].complete
        /\ (CallsEnded /\ \E w \in Workers : inflight.call[w].pc = "returned") =>
              /\ files[inflight.key].complete
              /\ files[inflight.key].bars =
                    KLine(Concat(tickFiles[TickStock], inflight.order), inflight.key)

====
